---- MODULE Spec2Model ----
(***************************************************************************)
(* Model of the DNA-ETL pipeline: ETLOrchestrator.orchestrate and its      *)
(* stages (InputValidator, DataExtractor, MetaDataValidator,               *)
(* MetaDataProcessor, DNAProcessor, Load), the exception translator, and   *)
(* the batch drivers of Main.py (single file, sequential directory,        *)
(* concurrent directory with a thread pool).                               *)
(*                                                                         *)
(* Python strings whose characters matter are sequences of one-character   *)
(* strings; a dict is the sequence of its items in insertion order.        *)
(***************************************************************************)
EXTENDS Integers, Sequences, FiniteSets, TLC

\* ------------------------------------------------------------------ bounds
MaxFiles == 2
MaxWorkers == 2

\* --------------------------------------------------------------- constants
MIN_AGE == 40
MAX_VALUE_LEN == 64
YEAR_RANGE_LOWER == 2014
YEAR_RANGE_UPPER == 2024

\* ----------------------------------------------------------- string helpers
Digits == <<"0", "1", "2", "3", "4", "5", "6", "7", "8", "9">>

IsDigit(c) == \E i \in 1..10 : Digits[i] = c

DigitVal(c) == (CHOOSE i \in 1..10 : Digits[i] = c) - 1

AllDigits(s) == \A i \in 1..Len(s) : IsDigit(s[i])

\* int() of the first n characters of a string of digits.
RECURSIVE NumValUpTo(_, _)
NumValUpTo(s, n) == IF n = 0 THEN 0 ELSE 10 * NumValUpTo(s, n - 1) + DigitVal(s[n])

NumVal(s) == NumValUpTo(s, Len(s))

Indices(s) == [i \in 1..Len(s) |-> i]

\* F applied to the value of e: a local name bound to a value computed once.
With(e, F(_)) == CHOOSE y \in {F(x) : x \in {e}} : TRUE

\* str.split(sep) for a one-character separator: the pieces between
\* consecutive separators.
Split(s, sep) ==
  With(<<0>> \o SelectSeq(Indices(s), LAMBDA i : s[i] = sep) \o <<Len(s) + 1>>,
       LAMBDA cuts : [k \in 1..(Len(cuts) - 1) |-> SubSeq(s, cuts[k] + 1, cuts[k + 1] - 1)])

Rep(c, n) == [i \in 1..n |-> c]

\* dict.get(key, 0) on a dict kept as a sequence of [k, v] items.
DictHas(d, key) == \E i \in 1..Len(d) : d[i].k = key

DictGet(d, key) == IF DictHas(d, key)
                   THEN d[CHOOSE i \in 1..Len(d) : d[i].k = key].v
                   ELSE 0

\* d[key] = val: an existing key keeps its position, a new key goes last.
DictSet(d, key, val) ==
  IF DictHas(d, key)
  THEN [i \in 1..Len(d) |-> IF d[i].k = key THEN [k |-> key, v |-> val] ELSE d[i]]
  ELSE Append(d, [k |-> key, v |-> val])

\* ------------------------------------------------ datetime.strptime formats
\* A parsed datetime (only the calendar fields the validator reads); ok is
\* FALSE where strptime raises ValueError / _parse_date_string returns None.
NoDate == [ok |-> FALSE, year |-> 0, month |-> 0, day |-> 0]

IsLeap(y) == (y % 4 = 0 /\ y % 100 # 0) \/ y % 400 = 0

DaysInMonth(y, m) == IF m = 2 THEN (IF IsLeap(y) THEN 29 ELSE 28)
                     ELSE IF m \in {4, 6, 9, 11} THEN 30 ELSE 31

\* The directive patterns of strptime: %Y is four digits, the others are one
\* or two digits within the directive's range.
FieldY(f) == Len(f) = 4 /\ AllDigits(f)

FieldRange(f, lo, hi) == Len(f) \in {1, 2} /\ AllDigits(f) /\ NumVal(f) \in lo..hi

FieldM(f) == FieldRange(f, 1, 12)

FieldD(f) == FieldRange(f, 1, 31)

\* The date built from year, month and day fields; datetime() rejects year 0
\* and a day past the end of the month.
MakeDate(fy, fm, fd) ==
  IF FieldY(fy) /\ FieldM(fm) /\ FieldD(fd)
     /\ NumVal(fy) >= 1 /\ NumVal(fd) <= DaysInMonth(NumVal(fy), NumVal(fm))
  THEN [ok |-> TRUE, year |-> NumVal(fy), month |-> NumVal(fm), day |-> NumVal(fd)]
  ELSE NoDate

\* "%Y-%m-%d"
ParseYmd(s) ==
  With(Split(s, "-"), LAMBDA p : IF Len(p) = 3 THEN MakeDate(p[1], p[2], p[3]) ELSE NoDate)

\* "%d/%m/%Y"
ParseDmySlash(s) ==
  With(Split(s, "/"), LAMBDA p : IF Len(p) = 3 THEN MakeDate(p[3], p[2], p[1]) ELSE NoDate)

\* "%m/%d/%Y"
ParseMdySlash(s) ==
  With(Split(s, "/"), LAMBDA p : IF Len(p) = 3 THEN MakeDate(p[3], p[1], p[2]) ELSE NoDate)

\* "%H:%M:%S"
IsTime(s) ==
  \E p \in {Split(s, ":")} :
    Len(p) = 3 /\ FieldRange(p[1], 0, 23) /\ FieldRange(p[2], 0, 59) /\ FieldRange(p[3], 0, 61)

\* "%Y-%m-%d %H:%M:%S" (the blank of the format matches one or more blanks)
ParseYmdHms(s) ==
  With(Split(s, " "),
       LAMBDA p : IF Len(p) >= 2 /\ (\A i \in 2..(Len(p) - 1) : p[i] = <<>>) /\ IsTime(p[Len(p)])
                  THEN ParseYmd(p[1])
                  ELSE NoDate)

\* "%d-%m-%Y"
ParseDmyDash(s) ==
  With(Split(s, "-"), LAMBDA p : IF Len(p) = 3 THEN MakeDate(p[3], p[2], p[1]) ELSE NoDate)

\* VALID_DATE_FORMATS, in the order of the list.
VALID_DATE_FORMATS == <<"%Y-%m-%d", "%d/%m/%Y", "%m/%d/%Y", "%Y-%m-%d %H:%M:%S", "%d-%m-%Y">>

strptime(s, fmt) ==
  CASE fmt = "%Y-%m-%d" -> ParseYmd(s)
    [] fmt = "%d/%m/%Y" -> ParseDmySlash(s)
    [] fmt = "%m/%d/%Y" -> ParseMdySlash(s)
    [] fmt = "%Y-%m-%d %H:%M:%S" -> ParseYmdHms(s)
    [] fmt = "%d-%m-%Y" -> ParseDmyDash(s)

\* ------------------------------------------------------- MetaDataValidator
\* JSON values: [t |-> "dict", d |-> items], [t |-> "str", s |-> chars],
\* [t |-> "int", n |-> number], [t |-> "list"]; an item is [k |-> key chars,
\* v |-> value].
_is_date_string(value) ==
  \E i \in 1..Len(VALID_DATE_FORMATS) : strptime(value, VALID_DATE_FORMATS[i]).ok

_parse_date_string(value) ==
  IF _is_date_string(value)
  THEN strptime(value, VALID_DATE_FORMATS[
         CHOOSE i \in 1..Len(VALID_DATE_FORMATS) :
           /\ strptime(value, VALID_DATE_FORMATS[i]).ok
           /\ \A j \in 1..(i - 1) : ~strptime(value, VALID_DATE_FORMATS[j]).ok])
  ELSE NoDate

\* (today.month, today.day) < (birth.month, birth.day), as a tuple comparison.
BeforeBirthday(now, birth) ==
  now.month < birth.month \/ (now.month = birth.month /\ now.day < birth.day)

_calculate_age(birth_date, now) ==
  now.year - birth_date.year - (IF BeforeBirthday(now, birth_date) THEN 1 ELSE 0)

_validate_string_value_length_only(value) == Len(value) <= MAX_VALUE_LEN

_validate_string_value(value) ==
  IF _is_date_string(value)
     /\ \E date_obj \in {_parse_date_string(value)} :
          ~(date_obj.ok /\ YEAR_RANGE_LOWER <= date_obj.year /\ date_obj.year <= YEAR_RANGE_UPPER)
  THEN FALSE
  ELSE Len(value) <= MAX_VALUE_LEN

_validate_birth_date_value(value, now) ==
  IF value.t = "str" /\ _is_date_string(value.s)
  THEN \E birth_date \in {_parse_date_string(value.s)} :
         IF birth_date.ok THEN _calculate_age(birth_date, now) >= MIN_AGE ELSE FALSE
  ELSE FALSE

Key_date_of_birth == <<"d", "a", "t", "e", "_", "o", "f", "_", "b", "i", "r", "t", "h">>

\* validate_metadata over the items of a dict: the loop returns False at the
\* first item that does not pass and True when every item passes.
RECURSIVE validate_items(_, _)
validate_items(items, now) ==
  \A i \in 1..Len(items) :
    IF items[i].v.t = "dict" THEN validate_items(items[i].v.d, now)
    ELSE IF items[i].k = Key_date_of_birth THEN _validate_birth_date_value(items[i].v, now)
    ELSE IF items[i].v.t = "str" THEN _validate_string_value(items[i].v.s)
    ELSE TRUE

validate_metadata(metadata_dict, now) == validate_items(metadata_dict.d, now)

\* ------------------------------------------------------- MetaDataProcessor
\* key.startswith("_")
IsPrivate_whole_key(key) == key = <<"_">>

IsPrivate(key) == key # <<>> /\ key[1] = "_"

\* The loop of remove_private_keys: private items are skipped, a dict value
\* is cleaned recursively, any other value is copied.
RECURSIVE remove_private_items(_)
remove_private_items(items) ==
  With(SelectSeq(items, LAMBDA it : ~IsPrivate(it.k)),
       LAMBDA kept :
         [j \in 1..Len(kept) |->
            IF kept[j].v.t = "dict"
            THEN [k |-> kept[j].k, v |-> [t |-> "dict", d |-> remove_private_items(kept[j].v.d)]]
            ELSE kept[j]])

remove_private_keys(meta_data) == [t |-> "dict", d |-> remove_private_items(meta_data.d)]

\* ------------------------------------------------------------ DNAProcessor
\* a / b rounded to an integer, an exact tie going to the even neighbour as
\* Python's round and format do; round(100 * num / den, 2) is kept as an
\* integer number of hundredths.
RoundDiv(a, b) ==
  LET q == a \div b
      r == a % b
  IN IF 2 * r < b THEN q
     ELSE IF 2 * r > b THEN q + 1
     ELSE IF q % 2 = 0 THEN q ELSE q + 1

RoundHundredths_floor(num, den) == (num * 10000) \div den

RoundHundredths(num, den) == RoundDiv(num * 10000, den)

gc_count(sequence) == Cardinality({i \in 1..Len(sequence) : sequence[i] = "G" \/ sequence[i] = "C"})

\* d[codon] = d.get(codon, 0) + 1
Count_once(d, codon) == With(d, LAMBDA dict : DictSet(dict, codon, 1))

Count(d, codon) == With(d, LAMBDA dict : DictSet(dict, codon, DictGet(dict, codon) + 1))

\* The loop of _analyze_sequence over range(0, len - len % 3 - 2, 3), from
\* offset i on; acc is [codons, codon_frequencies].
RECURSIVE count_codons(_, _, _)
count_codons(sequence, i, acc) ==
  IF i >= Len(sequence) - (Len(sequence) % 3) - 2 THEN acc
  ELSE With([codons |-> Count(acc.codons, SubSeq(sequence, i + 1, i + 3)),
             codon_frequencies |-> Count(acc.codon_frequencies, SubSeq(sequence, i + 1, i + 3))],
            LAMBDA counted : count_codons(sequence, i + 3, counted))

\* _analyze_sequence on a non-empty sequence: the analysis and the updated
\* accumulator of the instance.
_analyze_sequence(sequence, codon_frequencies) ==
  With(count_codons(sequence, 0, [codons |-> <<>>, codon_frequencies |-> codon_frequencies]),
       LAMBDA acc :
         [analysis |-> [gc_content |-> RoundHundredths(gc_count(sequence), Len(sequence)),
                        codons |-> acc.codons],
          codon_frequencies |-> acc.codon_frequencies])

\* A max that keeps the last of the keys with the greatest count.
most_common_last(codon_frequencies) ==
  With(codon_frequencies,
       LAMBDA cf :
         IF cf = <<>> THEN <<>>
         ELSE cf[CHOOSE i \in 1..Len(cf) :
                   /\ \A j \in 1..Len(cf) : cf[j].v <= cf[i].v
                   /\ \A j \in (i + 1)..Len(cf) : cf[j].v < cf[i].v].k)

\* max(codon_frequencies, key=codon_frequencies.get): the first key, in
\* insertion order, whose count is the greatest; None (here <<>>) for an
\* empty accumulator.
most_common(codon_frequencies) ==
  With(codon_frequencies,
       LAMBDA cf :
         IF cf = <<>> THEN <<>>
         ELSE cf[CHOOSE i \in 1..Len(cf) :
                   /\ \A j \in 1..Len(cf) : cf[j].v <= cf[i].v
                   /\ \A j \in 1..(i - 1) : cf[j].v < cf[i].v].k)

\* The least cost of the options of a cell and the scripts that reach it:
\* an option is a first step and the cell it leads to.
LeastCost(options) ==
  IF options = {} THEN [cost |-> 0, scripts |-> {<<>>}]
  ELSE LET CostOf(o) == o.next.cost + (IF o.step = "equal" THEN 0 ELSE 1)
       IN With(CHOOSE c \in {CostOf(o) : o \in options} : \A o \in options : c <= CostOf(o),
               LAMBDA least :
                 [cost |-> least,
                  scripts |-> UNION {{<<o.step>> \o p : p \in o.next.scripts} :
                                       o \in {x \in options : CostOf(x) = least}}])

\* The cells for seq1 from its i-th character on, against seq2 from its
\* j-th on for every j, filled from the end of seq2 backwards: below is the
\* row for i + 1, row holds the cells right of the one being filled. A
\* character is kept where the two agree, replaced where they differ,
\* deleted from seq1 or inserted from seq2.
RECURSIVE ScriptRow(_, _, _, _, _)
ScriptRow(seq1, seq2, i, below, row) ==
  IF Len(row) = Len(seq2) + 1 THEN row
  ELSE LET j == Len(seq2) + 1 - Len(row)
       IN With(LeastCost(
                 (IF i <= Len(seq1) /\ j <= Len(seq2)
                  THEN {[step |-> IF seq1[i] = seq2[j] THEN "equal" ELSE "replace",
                         next |-> below[j + 1]]}
                  ELSE {})
                 \cup (IF i <= Len(seq1) THEN {[step |-> "delete", next |-> below[j]]} ELSE {})
                 \cup (IF j <= Len(seq2) THEN {[step |-> "insert", next |-> row[1]]} ELSE {})),
               LAMBDA cell : ScriptRow(seq1, seq2, i, below, <<cell>> \o row))

\* The rows from the end of seq1 back to row i.
RECURSIVE ScriptRows(_, _, _, _)
ScriptRows(seq1, seq2, i, below) ==
  With(ScriptRow(seq1, seq2, i, below, <<>>),
       LAMBDA row : IF i = 1 THEN row ELSE ScriptRows(seq1, seq2, i - 1, row))

\* Levenshtein.editops(seq1, seq2) returns one edit script of least cost;
\* which one, where several have the least cost, is the library's choice.
editops(seq1, seq2) == ScriptRows(seq1, seq2, Len(seq1) + 1, <<>>)[1].scripts

StepsBefore(script, k, kinds) == Cardinality({x \in 1..(k - 1) : script[x] \in kinds})

\* The number of kept characters from step k up to the next edit.
RunLength(script, k) ==
  (CHOOSE e \in k..(Len(script) + 1) :
     /\ e = Len(script) + 1 \/ script[e] # "equal"
     /\ \A x \in k..(e - 1) : script[x] = "equal") - k

\* Levenshtein.matching_blocks: the runs of kept characters, in order, as
\* (start in seq1, start in seq2, size), closed by a block of size 0.
matching_blocks(script, seq1, seq2) ==
  With(SelectSeq(Indices(script),
                 LAMBDA k : script[k] = "equal" /\ (k = 1 \/ script[k - 1] # "equal")),
       LAMBDA starts :
         [x \in 1..Len(starts) |->
            [a |-> StepsBefore(script, starts[x], {"equal", "replace", "delete"}),
             b |-> StepsBefore(script, starts[x], {"equal", "replace", "insert"}),
             size |-> RunLength(script, starts[x])]]
         \o <<[a |-> Len(seq1), b |-> Len(seq2), size |-> 0]>>)

\* max(blocks, key=lambda x: x.size): the first block of the greatest size.
MaxBlock(blocks) ==
  blocks[CHOOSE x \in 1..Len(blocks) :
           /\ \A y \in 1..Len(blocks) : blocks[y].size <= blocks[x].size
           /\ \A y \in 1..(x - 1) : blocks[y].size < blocks[x].size]

\* _longest_common_subsequence, given the script editops returned.
_longest_common_subsequence(seq1, seq2, script) ==
  With(MaxBlock(matching_blocks(script, seq1, seq2)),
       LAMBDA max_block :
         IF max_block.size > 0
         THEN SubSeq(seq1, max_block.a + 1, max_block.a + max_block.size)
         ELSE <<>>)

\* lcs_value in sequence
Contains(sequence, value) ==
  \E a \in 0..(Len(sequence) - Len(value)) : SubSeq(sequence, a + 1, a + Len(value)) = value

\* combinations(range(len(sequences)), 2), 1-based.
combinations2(n) ==
  With({<<i, j>> : i \in 1..n, j \in 1..n},
       LAMBDA sq :
         [x \in 1..((n * (n - 1)) \div 2) |->
            CHOOSE pr \in sq :
              /\ pr[1] < pr[2]
              /\ Cardinality({q \in sq : q[1] < q[2]
                                /\ (q[1] < pr[1] \/ (q[1] = pr[1] /\ q[2] < pr[2]))}) = x - 1])

NoLcs == [value |-> <<>>, sequences |-> <<>>, length |-> 0]

\* A result whose participants are numbered from 0.
Candidate_zero_based(sequences, lcs_value) ==
  [value |-> lcs_value,
   sequences |-> [x \in 1..Len(SelectSeq(Indices(sequences),
                                         LAMBDA k : Contains(sequences[k], lcs_value))) |->
                    SelectSeq(Indices(sequences),
                              LAMBDA k : Contains(sequences[k], lcs_value))[x] - 1],
   length |-> Len(lcs_value)]

\* The result _find_lcs appends for a pair whose LCS is lcs_value.
Candidate(sequences, lcs_value) ==
  [value |-> lcs_value,
   sequences |-> SelectSeq(Indices(sequences), LAMBDA k : Contains(sequences[k], lcs_value)),
   length |-> Len(lcs_value)]

\* key=lambda x: (x["length"], len(x["sequences"])), compared as tuples.
KeyLess_length_only(x, y) == x.length < y.length

KeyLess(x, y) ==
  x.length < y.length \/ (x.length = y.length /\ Len(x.sequences) < Len(y.sequences))

\* max(all_results, key=...): the first result with the greatest key.
MaxResult(all_results) ==
  all_results[CHOOSE x \in 1..Len(all_results) :
                /\ \A y \in 1..Len(all_results) : ~KeyLess(all_results[x], all_results[y])
                /\ \A y \in 1..(x - 1) : KeyLess(all_results[y], all_results[x])]

\* _find_lcs, given the LCS values the pairs got, in the order of the pairs.
_find_lcs(sequences, lcs_values) ==
  IF Len(sequences) < 2 THEN NoLcs
  ELSE With(SelectSeq([x \in 1..Len(lcs_values) |-> Candidate(sequences, lcs_values[x])],
                      LAMBDA r : r.value # <<>>),
            LAMBDA all_results : IF all_results = <<>> THEN NoLcs ELSE MaxResult(all_results))

\* What the pairs of a list can get as LCS values, one for every pair.
LcsValues(sequences) ==
  With(combinations2(Len(sequences)),
       LAMBDA pairs :
         With([x \in 1..Len(pairs) |->
                 {_longest_common_subsequence(sequences[pairs[x][1]], sequences[pairs[x][2]], s) :
                    s \in editops(sequences[pairs[x][1]], sequences[pairs[x][2]])}],
              LAMBDA outcomes :
                {v \in [1..Len(pairs) -> UNION {outcomes[x] : x \in 1..Len(pairs)}] :
                   \A x \in 1..Len(pairs) : v[x] \in outcomes[x]}))

\* The results _find_lcs can return for the sequences.
LcsResults(sequences) == {_find_lcs(sequences, v) : v \in LcsValues(sequences)}

\* The first loop of transform_dna; an empty sequence raises
\* ZeroDivisionError in _analyze_sequence after the earlier sequences have
\* been counted.
RECURSIVE analyze_all(_, _, _)
analyze_all(sequences, sequences_data, codon_frequencies) ==
  IF sequences = <<>>
  THEN [raised |-> FALSE, sequences_data |-> sequences_data, codon_frequencies |-> codon_frequencies]
  ELSE IF Len(sequences[1]) = 0
  THEN [raised |-> TRUE, sequences_data |-> sequences_data, codon_frequencies |-> codon_frequencies]
  ELSE With(_analyze_sequence(sequences[1], codon_frequencies),
            LAMBDA a : analyze_all(Tail(sequences), Append(sequences_data, a.analysis),
                                   a.codon_frequencies))

\* transform_dna on an instance whose accumulator is codon_frequencies;
\* lcs_data is what _find_lcs returned for the sequences.
transform_dna(sequences, codon_frequencies, lcs_data) ==
  With(analyze_all(sequences, <<>>, codon_frequencies),
       LAMBDA r : [raised |-> r.raised,
                   codon_frequencies |-> r.codon_frequencies,
                   result |-> [sequences |-> r.sequences_data,
                               most_common_codon |-> most_common(r.codon_frequencies),
                               lcs |-> lcs_data]])

\* ----------------------------------------------------------- DataExtractor
IsSpace(c) == c \in {" ", "\t", "\n", "\r"}

\* str.strip(): the string from its first to its last non-blank character.
strip(s) ==
  LET solid == {i \in 1..Len(s) : ~IsSpace(s[i])}
  IN IF solid = {} THEN <<>>
     ELSE SubSeq(s, CHOOSE i \in solid : \A j \in solid : i <= j,
                    CHOOSE i \in solid : \A j \in solid : j <= i)

\* An extraction that keeps the blank lines too.
_extract_dna_every_line(lines) == [i \in 1..Len(lines) |-> strip(lines[i])]

\* _extract_dna: the stripped, non-blank lines of the DNA file, in order.
_extract_dna(lines) ==
  SelectSeq([i \in 1..Len(lines) |-> strip(lines[i])], LAMBDA line : line # <<>>)

\* -------------------------------------------------------------- exceptions
\* An exception is [type |-> class name, arg |-> the constructor argument].
\* str(e): the message the class formats, kept as [head, arg].
ExceptionHead(type) ==
  CASE type = "InputFileDoesNotExist" -> "Input file does not exist: "
    [] type = "InvalidInputKeys" -> "Input file don't match valid keys: "
    [] type = "InvalidUUID" -> "Invalid UUID: "
    [] type = "ContextPathDoesNotExist" -> "Context path does not exist: "
    [] type = "DataFileDoesNotExist" -> "Data file does not exist in: "
    [] type = "DateOutOfRange" -> "Date out of range: "
    [] type = "InvalidDateParsingFormat" -> "Invalid date format: "
    [] type = "InvalidBirthDate" -> "Invalid date format: "
    [] type = "InvalidParticipantAge" -> "Invalid participant age: "
    [] type = "InvalidValueLength" -> "Invalid value length for value: "
    [] type = "LoadException" -> "Failed to load data for participant "
    [] OTHER -> type

str(e) == [head |-> ExceptionHead(e.type), arg |-> e.arg]

NoException == [type |-> "", arg |-> <<>>]

\* The classes translate_custom_exceptions recognises.
valid_exceptions ==
  {"InputFileDoesNotExist", "InvalidInputKeys", "InvalidUUID", "ContextPathDoesNotExist",
   "DataFileDoesNotExist", "DateOutOfRange", "InvalidDateParsingFormat", "InvalidBirthDate",
   "InvalidParticipantAge", "InvalidValueLength", "LoadException"}

\* StatusCodeExceptionTranslator.translate_custom_exceptions
translate_custom_exceptions(e) ==
  IF e.type \in valid_exceptions
  THEN [code |-> 1, message |-> [prefix |-> "", text |-> str(e)]]
  ELSE [code |-> 1, message |-> [prefix |-> "Unknown exception: ", text |-> str(e)]]

\* A handler that catches the recognised classes only.
CaughtByOrchestrate_recognised(e) == e.type \in valid_exceptions

\* The classes the handler "except Exception" of orchestrate catches: every
\* exception a stage can raise derives from Exception.
CaughtByOrchestrate(e) == TRUE

\* ---------------------------------------------------------- InputValidator
Key_context_path == <<"c", "o", "n", "t", "e", "x", "t", "_", "p", "a", "t", "h">>

Key_results_path == <<"r", "e", "s", "u", "l", "t", "s", "_", "p", "a", "t", "h">>

VALID_INPUT_KEYS == <<Key_context_path, Key_results_path>>

Suffix_dna_txt == <<"_", "d", "n", "a", ".", "t", "x", "t">>

Suffix_dna_json == <<"_", "d", "n", "a", ".", "j", "s", "o", "n">>

HexDigits == {"0", "1", "2", "3", "4", "5", "6", "7", "8", "9",
              "a", "b", "c", "d", "e", "f", "A", "B", "C", "D", "E", "F"}

RemoveChar(s, c) == SelectSeq(s, LAMBDA x : x # c)

\* uuid.UUID(s) succeeds: 32 hexadecimal digits once the hyphens are removed.
IsUUID(s) == \E hex \in {RemoveChar(s, "-")} :
               Len(hex) = 32 /\ \A i \in 1..32 : hex[i] \in HexDigits

\* Path(p).name: the last non-empty segment of the path.
LastNonEmpty(parts) ==
  LET full == {i \in 1..Len(parts) : parts[i] # <<>>}
  IN IF full = {} THEN <<>> ELSE parts[CHOOSE i \in full : \A j \in full : j <= i]

PathName(p) == With(Split(p, "/"), LAMBDA parts : LastNonEmpty(parts))

DictKeys(d) == {d[i].k : i \in 1..Len(d)}

DictValue(d, key) == d[CHOOSE i \in 1..Len(d) : d[i].k = key].v

SeqRange(q) == {q[i] : i \in 1..Len(q)}

NoPaths == [dna_path |-> <<>>, metadata_path |-> <<>>, context_path |-> <<>>, output_path |-> <<>>]

Raise(type, arg) ==
  [raised |-> TRUE, exc |-> [type |-> type, arg |-> arg],
   verified_paths |-> NoPaths, participant_id |-> <<>>]

\* validate with the existence of context_path checked before the UUID.
validate_exists_first(path, file, env) ==
  IF ~file.exists THEN Raise("InputFileDoesNotExist", path)
  ELSE IF ~file.json_ok THEN Raise("JSONDecodeError", <<>>)
  ELSE IF file.value.t # "dict" THEN Raise("AttributeError", <<>>)
  ELSE IF SeqRange(VALID_INPUT_KEYS) # DictKeys(file.value.d) THEN Raise("InvalidInputKeys", path)
  ELSE IF DictValue(file.value.d, Key_context_path).t # "str" THEN Raise("TypeError", <<>>)
  ELSE LET context_path == DictValue(file.value.d, Key_context_path).s
       IN With(PathName(context_path),
               LAMBDA patient_uuid :
                 IF ~env.context_exists THEN Raise("ContextPathDoesNotExist", context_path)
                 ELSE IF ~IsUUID(patient_uuid) THEN Raise("InvalidUUID", patient_uuid)
                 ELSE IF ~env.dna_exists \/ ~env.metadata_exists
                 THEN Raise("InputFileDoesNotExist", context_path)
                 ELSE IF DictValue(file.value.d, Key_results_path).t # "str"
                 THEN Raise("TypeError", <<>>)
                 ELSE [raised |-> FALSE, exc |-> NoException,
                       verified_paths |->
                         [dna_path |-> context_path \o <<"/">> \o patient_uuid \o Suffix_dna_txt,
                          metadata_path |-> context_path \o <<"/">> \o patient_uuid
                                            \o Suffix_dna_json,
                          context_path |-> context_path,
                          output_path |-> DictValue(file.value.d, Key_results_path).s],
                       participant_id |-> patient_uuid])

\* InputValidator.validate(path): file is the descriptor file at path as
\* [exists, json_ok, value]; env tells which of the participant's paths exist.
validate(path, file, env) ==
  IF ~file.exists THEN Raise("InputFileDoesNotExist", path)
  ELSE IF ~file.json_ok THEN Raise("JSONDecodeError", <<>>)
  ELSE IF file.value.t # "dict" THEN Raise("AttributeError", <<>>)
  ELSE IF SeqRange(VALID_INPUT_KEYS) # DictKeys(file.value.d) THEN Raise("InvalidInputKeys", path)
  ELSE IF DictValue(file.value.d, Key_context_path).t # "str" THEN Raise("TypeError", <<>>)
  ELSE LET context_path == DictValue(file.value.d, Key_context_path).s
       IN With(PathName(context_path),
               LAMBDA patient_uuid :
                 LET dna_path == context_path \o <<"/">> \o patient_uuid \o Suffix_dna_txt
                     metadata_path == context_path \o <<"/">> \o patient_uuid \o Suffix_dna_json
                 IN IF ~IsUUID(patient_uuid) THEN Raise("InvalidUUID", patient_uuid)
                    ELSE IF ~env.context_exists
                    THEN Raise("ContextPathDoesNotExist", context_path)
                    ELSE IF ~env.dna_exists \/ ~env.metadata_exists
                    THEN Raise("InputFileDoesNotExist", context_path)
                    ELSE IF DictValue(file.value.d, Key_results_path).t # "str"
                    THEN Raise("TypeError", <<>>)
                    ELSE [raised |-> FALSE, exc |-> NoException,
                          verified_paths |->
                            [dna_path |-> dna_path, metadata_path |-> metadata_path,
                             context_path |-> context_path,
                             output_path |-> DictValue(file.value.d, Key_results_path).s],
                          participant_id |-> patient_uuid])

\* -------------------------------------------------------------------- Load
\* The file at a results path: NoFile until a record is written to it.
NoFile == [present |-> FALSE]

\* Load.create_output: builds the record and writes it; when open() or
\* json.dump raises, the handler prints and returns None, so nothing is raised
\* to the caller. writable tells whether the file can be opened for writing.
create_output(meta_data, dna_data, paths, start_time, end_time, participant_id, writable) ==
  LET output == [metadata |-> [start_at |-> start_time, end_at |-> end_time,
                               context_path |-> paths.context_path,
                               results_path |-> paths.output_path],
                 results |-> <<[participant |-> [_id |-> participant_id],
                                txt |-> dna_data, json |-> meta_data]>>]
  IN [raised |-> FALSE, exc |-> NoException,
      saved |-> writable,
      file |-> IF writable THEN [present |-> TRUE, content |-> output] ELSE NoFile]

\* ------------------------------------------------------------------ inputs
\* The files a run can meet.  A scenario names, for one descriptor file, the
\* state of the descriptor (desc), of the participant's metadata file (meta)
\* and DNA file (dna), and whether the results path can be opened for
\* writing (writable).
Str(chars) == [t |-> "str", s |-> chars]

IntVal(n) == [t |-> "int", n |-> n]

Dict(items) == [t |-> "dict", d |-> items]

Item(key, value) == [k |-> key, v |-> value]

SampleUUID == Rep("a", 8) \o <<"-">> \o Rep("1", 4) \o <<"-">> \o Rep("4", 4) \o <<"-">>
              \o Rep("b", 4) \o <<"-">> \o Rep("0", 12)

GoodContextPath == <<"/", "p", "/">> \o SampleUUID

BadContextPath == <<"/", "p", "/", "x">>

\* The directory a batch run lists.
directory_path == <<"/", "o">>

\* The descriptor file listed i-th in the directory, and its results path:
\* the record is written into the directory listed, under a .json name.
DescriptorPath(i) == <<"f", Digits[i + 1], ".", "j", "s", "o", "n">>

ResultsPath(i) == directory_path \o <<"/", "r", Digits[i + 1], ".", "j", "s", "o", "n">>

DescriptorKinds == {"missing", "garbage", "badkeys", "baduuid", "nocontext", "nodata", "ok"}

DescriptorFile(i, desc) ==
  CASE desc = "missing" -> [exists |-> FALSE, json_ok |-> FALSE, value |-> Dict(<<>>)]
    [] desc = "garbage" -> [exists |-> TRUE, json_ok |-> FALSE, value |-> Dict(<<>>)]
    [] desc = "badkeys" ->
         [exists |-> TRUE, json_ok |-> TRUE,
          value |-> Dict(<<Item(<<"w", "r", "o", "n", "g">>, Str(<<"v">>))>>)]
    [] desc = "baduuid" ->
         [exists |-> TRUE, json_ok |-> TRUE,
          value |-> Dict(<<Item(Key_context_path, Str(BadContextPath)),
                           Item(Key_results_path, Str(ResultsPath(i)))>>)]
    [] OTHER ->
         [exists |-> TRUE, json_ok |-> TRUE,
          value |-> Dict(<<Item(Key_context_path, Str(GoodContextPath)),
                           Item(Key_results_path, Str(ResultsPath(i)))>>)]

Environment(desc) ==
  [context_exists |-> desc # "nocontext", dna_exists |-> desc # "nodata", metadata_exists |-> TRUE]

MetaKinds == {"garbage", "list", "badbirth", "young", "daterange", "toolong", "private", "valid"}

\* The metadata kinds that break a validation rule, and the rule's error kind.
RuleKind(meta) ==
  CASE meta = "badbirth" -> "InvalidBirthDate"
    [] meta = "young" -> "InvalidParticipantAge"
    [] meta = "daterange" -> "DateOutOfRange"
    [] meta = "toolong" -> "InvalidValueLength"
    [] OTHER -> ""

ValidMetadata ==
  Dict(<<Item(<<"n", "a", "m", "e">>, Str(<<"J", "o">>)),
         Item(<<"_", "s", "s", "n">>, Str(<<"1", "2", "3">>)),
         Item(Key_date_of_birth, Str(<<"1", "9", "8", "0", "-", "0", "5", "-", "1", "5">>)),
         Item(<<"a", "g", "e">>, IntVal(46)),
         Item(<<"v", "i", "s", "i", "t">>,
              Dict(<<Item(<<"d", "a", "y">>, Str(<<"1", "5", "/", "0", "1", "/", "2", "0", "2", "0">>)),
                     Item(<<"_", "p", "i", "n">>, Dict(<<Item(<<"k">>, IntVal(1))>>))>>))>>)

\* The metadata file: json_ok is FALSE where json.load raises.
MetadataFile(meta) ==
  CASE meta = "garbage" -> [json_ok |-> FALSE, value |-> Dict(<<>>)]
    [] meta = "list" -> [json_ok |-> TRUE, value |-> [t |-> "list"]]
    [] meta = "badbirth" ->
         [json_ok |-> TRUE,
          value |-> Dict(<<Item(Key_date_of_birth, Str(<<"s", "o", "o", "n">>))>>)]
    [] meta = "young" ->
         [json_ok |-> TRUE,
          value |-> Dict(<<Item(<<"n", "a", "m", "e">>, Str(<<"J", "o">>)),
                           Item(Key_date_of_birth, Str(<<"2", "0", "1", "0", "-", "0", "1", "-", "0", "1">>))>>)]
    [] meta = "daterange" ->
         [json_ok |-> TRUE,
          value |-> Dict(<<Item(<<"v", "i", "s", "i", "t">>,
                                Dict(<<Item(<<"d", "a", "y">>, Str(<<"2", "0", "3", "0", "-", "1", "2", "-", "3", "1">>))>>))>>)]
    [] meta = "toolong" ->
         [json_ok |-> TRUE,
          value |-> Dict(<<Item(<<"n", "o", "t", "e">>, Str(Rep("a", MAX_VALUE_LEN + 1)))>>)]
    [] meta = "private" ->
         [json_ok |-> TRUE,
          value |-> Dict(<<Item(<<"n", "a", "m", "e">>, Str(<<"J", "o">>)),
                           Item(<<"_", "h">>,
                                Dict(<<Item(<<"n", "o", "t", "e">>,
                                            Str(Rep("a", MAX_VALUE_LEN + 1)))>>))>>)]
    [] OTHER -> [json_ok |-> TRUE, value |-> ValidMetadata]

\* D0 holds blank lines only, D1 two sequences around a blank line, D2 one.
DnaKinds == {"D0", "D1", "D2"}

\* The lines of the DNA file, as readlines() returns them.
DnaFile(dna) ==
  CASE dna = "D1" -> <<<<"A", "A", "A", "A", "A", "A", "C", "\n">>, <<"\n">>, <<" ", " ", "G", "G", "G", "T", " ", "\n">>>>
    [] dna = "D0" -> <<<<"\n">>, <<"\t", "\t", "\n">>, <<" ", " ", "\n">>>>
    [] OTHER -> <<<<"C", "C", "C", "\n">>>>

Scenario(desc, meta, dna, writable) == [desc |-> desc, meta |-> meta, dna |-> dna, writable |-> writable]

\* Scenarios of a single-file invocation: every descriptor failure, and for a
\* good descriptor every metadata kind, DNA file and writability.
SingleScenarios ==
  {Scenario(desc, "valid", "D1", TRUE) : desc \in DescriptorKinds \ {"ok"}}
  \cup {Scenario("ok", meta, dna, w) : meta \in MetaKinds, dna \in DnaKinds, w \in BOOLEAN}

\* Scenarios of the files of a directory.
BatchScenarios ==
  {Scenario("ok", "valid", "D1", TRUE), Scenario("ok", "valid", "D2", TRUE),
   Scenario("ok", "valid", "D1", FALSE), Scenario("garbage", "valid", "D1", TRUE)}

Todays == {[year |-> 2026, month |-> 11, day |-> 3]}

\* ------------------------------------------------------------------- state
VARIABLES
  mode,              \* "single", "sequential" or "concurrent" (main's branch)
  num_threads,       \* max_workers of the ThreadPoolExecutor
  inputs,            \* the scenario of each listed descriptor file, in listing order
  today,             \* the date datetime.now() gives to _calculate_age
  bpc,               \* position of the main thread
  idx,               \* sequential mode: index of the file the loop is at
  run,               \* per descriptor file: the orchestrate call made for it
  orchestrators,     \* the ETLOrchestrator instances, 0 is main's, i is task i's
  fs,                \* the file at each results path
  successful_files,  \* list of file indices
  failed_files,      \* list of [file, message]
  collected,         \* concurrent mode: futures as_completed has yielded
  retval,            \* what the driver returned: "None", "True" or "False"
  summary,           \* what print_summary_report printed
  call               \* a direct call of one pipeline function: arguments and result

vars == <<mode, num_threads, inputs, today, bpc, idx, run, orchestrators, fs,
          successful_files, failed_files, collected, retval, summary, call>>

\* No function is called directly: the program runs from main.
NoCall == [fn |-> "none"]

N == Len(inputs)

Files == 1..N

NoResult == [code |-> -1, message |-> [prefix |-> "", text |-> [head |-> "", arg |-> <<>>]]]

NoSummary == [printed |-> FALSE]

BoolStr(b) == IF b THEN "True" ELSE "False"

\* An orchestrate call that has not been made.
IdleRun ==
  [state |-> "idle", orch |-> 0, verified_paths |-> NoPaths, participant_id |-> <<>>,
   start_time |-> 0, end_time |-> 0, metadata |-> Dict(<<>>), dna_data |-> <<>>,
   valid_metadata |-> "unset", transformed_metadata |-> Dict(<<>>),
   transformed_dna |-> [sequences |-> <<>>, most_common_codon |-> <<>>, lcs |-> NoLcs],
   returned |-> FALSE, propagated |-> FALSE, result |-> NoResult,
   log |-> <<>>, failed_stage |-> "", exc |-> NoException, saved |-> FALSE, calls |-> 0]

\* ETLOrchestrator.__init__: a DNAProcessor with an empty accumulator.  by is
\* the task that constructed the instance (0 for main), users the orchestrate
\* calls that have run on it.
NewOrchestrator(by) == [constructed |-> TRUE, by |-> by, codon_frequencies |-> <<>>, users |-> {}]

NoOrchestrator == [constructed |-> FALSE, by |-> 0, codon_frequencies |-> <<>>, users |-> {}]

InputSeqs(S, lo, hi) == UNION {[1..n -> S] : n \in lo..hi}

Init ==
  /\ mode \in {"single", "sequential", "concurrent"}
  /\ inputs \in IF mode = "single" THEN InputSeqs(SingleScenarios, 1, 1)
                ELSE InputSeqs(BatchScenarios, 0, MaxFiles)
  /\ num_threads \in IF mode = "concurrent" THEN 0..MaxWorkers ELSE {1}
  /\ today \in Todays
  /\ bpc = "start"
  /\ idx = 1
  /\ run = [i \in 1..Len(inputs) |-> IdleRun]
  /\ orchestrators = [o \in 0..Len(inputs) |-> NoOrchestrator]
  /\ fs = [p \in {ResultsPath(i) : i \in 1..Len(inputs)} |-> NoFile]
  /\ successful_files = <<>>
  /\ failed_files = <<>>
  /\ collected = {}
  /\ retval = "None"
  /\ summary = NoSummary
  /\ call = NoCall

\* ------------------------------------------------ ETLOrchestrator.orchestrate
\* The call orchestrator.orchestrate(full_path) for file i on instance o.
Call(i, o) ==
  [run EXCEPT ![i] = [@ EXCEPT !.state = "Start", !.orch = o, !.calls = @ + 1]]

Use(i, o) == [orchestrators EXCEPT ![o].users = @ \cup {i}]

\* The output written before the participant's files are read.
StageOrder_load_early == <<"validate_input", "load", "extract", "validate_metadata", "transform">>

\* The statements of the try block of orchestrate, in program order.
StageOrder == <<"validate_input", "extract", "validate_metadata", "transform", "load">>

\* The position orchestrate is at once a stage has completed.
StateAfter(stage) ==
  CASE stage = "validate_input" -> "PathsResolved"
    [] stage = "extract" -> "Extracted"
    [] stage = "validate_metadata" -> "Validated"
    [] stage = "transform" -> "Transformed"
    [] stage = "load" -> "Persisted"

\* Run r is inside the try block and its next statement is stage.
At(r, stage) ==
  /\ r.state \notin {"idle", "Failed"}
  /\ ~r.returned
  /\ Len(r.log) < Len(StageOrder)
  /\ StageOrder[Len(r.log) + 1] = stage

SuccessMessage(participant_id) ==
  [prefix |-> "Pipline completed for participant ID: ", text |-> [head |-> "", arg |-> participant_id]]

\* A stage of run r completed without raising; after the last statement of
\* the try block orchestrate returns 0 and the completion message.
Completed(r, stage) ==
  LET r2 == [r EXCEPT !.state = StateAfter(stage), !.log = Append(@, stage)]
  IN IF Len(r2.log) = Len(StageOrder)
     THEN [r2 EXCEPT !.returned = TRUE,
                     !.result = [code |-> 0, message |-> SuccessMessage(r.participant_id)]]
     ELSE r2

\* A stage of run r raised e: the handler of orchestrate translates it and
\* returns; an exception the handler does not catch leaves orchestrate.
Failed(r, stage, e) ==
  IF CaughtByOrchestrate(e)
  THEN [r EXCEPT !.state = "Failed", !.log = Append(@, stage), !.failed_stage = stage,
                 !.exc = e, !.returned = TRUE, !.result = translate_custom_exceptions(e)]
  ELSE [r EXCEPT !.state = "Failed", !.log = Append(@, stage), !.failed_stage = stage,
                 !.exc = e, !.propagated = TRUE]

\* verified_paths, participant_id = self.input_validator.validate(input_path)
\* start_time = datetime.now()
StageValidateInput(i) ==
  /\ At(run[i], "validate_input")
  /\ \E v \in {validate(DescriptorPath(i), DescriptorFile(i, inputs[i].desc),
                        Environment(inputs[i].desc))} :
       run' = [run EXCEPT ![i] =
                 IF v.raised THEN Failed(@, "validate_input", v.exc)
                 ELSE Completed([@ EXCEPT !.verified_paths = v.verified_paths,
                                          !.participant_id = v.participant_id,
                                          !.start_time = Len(run[i].log) + 1],
                                "validate_input")]
  /\ UNCHANGED <<call, mode, num_threads, inputs, today, bpc, idx, orchestrators, fs,
                 successful_files, failed_files, collected, retval, summary>>

\* metadata, dna_data = self.data_extractor.extract(verified_paths)
StageExtract(i) ==
  /\ At(run[i], "extract")
  /\ LET file == MetadataFile(inputs[i].meta)
     IN run' = [run EXCEPT ![i] =
                  IF ~file.json_ok
                  THEN Failed(@, "extract", [type |-> "JSONDecodeError", arg |-> <<>>])
                  ELSE Completed([@ EXCEPT !.metadata = file.value,
                                           !.dna_data = _extract_dna(DnaFile(inputs[i].dna))],
                                 "extract")]
  /\ UNCHANGED <<call, mode, num_threads, inputs, today, bpc, idx, orchestrators, fs,
                 successful_files, failed_files, collected, retval, summary>>

\* self.metadata_validator.validate_metadata(metadata): the returned bool is
\* not read; metadata that is not a dict has no items() (AttributeError).
StageValidateMetadata(i) ==
  /\ At(run[i], "validate_metadata")
  /\ IF run[i].metadata.t # "dict"
     THEN run' = [run EXCEPT ![i] =
                    Failed(@, "validate_metadata", [type |-> "AttributeError", arg |-> <<>>])]
     ELSE \E valid \in {validate_metadata(run[i].metadata, today)} :
            run' = [run EXCEPT ![i] =
                      Completed([@ EXCEPT !.valid_metadata = BoolStr(valid)],
                                "validate_metadata")]
  /\ UNCHANGED <<call, mode, num_threads, inputs, today, bpc, idx, orchestrators, fs,
                 successful_files, failed_files, collected, retval, summary>>

\* transformed_metadata = self.MetaData_processor.remove_private_keys(metadata)
\* transformed_dna = self.DNA_processor.transform_dna(dna_data)
\* end_time = datetime.now()
StageTransform(i) ==
  /\ At(run[i], "transform")
  /\ LET o == run[i].orch
     IN IF run[i].metadata.t # "dict"
        THEN /\ run' = [run EXCEPT ![i] =
                          Failed(@, "transform", [type |-> "AttributeError", arg |-> <<>>])]
             /\ orchestrators' = Use(i, o)
        ELSE \E transformed_metadata \in {remove_private_keys(run[i].metadata)} :
             \E lcs_data \in LcsResults(run[i].dna_data) :
             \E t \in {transform_dna(run[i].dna_data, orchestrators[o].codon_frequencies,
                                     lcs_data)} :
               /\ orchestrators' = [orchestrators EXCEPT
                                      ![o].codon_frequencies = t.codon_frequencies,
                                      ![o].users = @ \cup {i}]
               /\ run' = [run EXCEPT ![i] =
                            IF t.raised
                            THEN Failed(@, "transform",
                                        [type |-> "ZeroDivisionError", arg |-> <<>>])
                            ELSE Completed([@ EXCEPT !.transformed_metadata = transformed_metadata,
                                                     !.transformed_dna = t.result,
                                                     !.end_time = Len(run[i].log) + 1],
                                           "transform")]
  /\ UNCHANGED <<call, mode, num_threads, inputs, today, bpc, idx, fs,
                 successful_files, failed_files, collected, retval, summary>>

\* self.loader.create_output(transformed_metadata, transformed_dna,
\*                           verified_paths, start_time, end_time, participant_id)
StageLoad(i) ==
  /\ At(run[i], "load")
  /\ \E r \in {run[i]} :
     \E c \in {create_output(r.transformed_metadata, r.transformed_dna, r.verified_paths,
                             r.start_time, r.end_time, r.participant_id, inputs[i].writable)} :
        /\ fs' = IF c.saved THEN [fs EXCEPT ![r.verified_paths.output_path] = c.file] ELSE fs
        /\ run' = [run EXCEPT ![i] =
                     IF c.raised THEN Failed(@, "load", c.exc)
                     ELSE Completed([@ EXCEPT !.saved = c.saved], "load")]
  /\ UNCHANGED <<call, mode, num_threads, inputs, today, bpc, idx, orchestrators,
                 successful_files, failed_files, collected, retval, summary>>

Stage(i) ==
  \/ StageValidateInput(i)
  \/ StageExtract(i)
  \/ StageValidateMetadata(i)
  \/ StageTransform(i)
  \/ StageLoad(i)

\* ----------------------------------------------------------------- Main.py
\* A report that counts the successful files only as processed.
print_summary_report_short(successful, failed, mode_name) ==
  [printed |-> TRUE, mode |-> mode_name, total_files |-> Len(successful),
   success_count |-> Len(successful), failure_count |-> Len(failed),
   success_rate |-> IF Len(successful) > 0 THEN 1000 ELSE 0,
   failed_files |-> failed]

\* print_summary_report; success_rate is kept in tenths of a percent.
print_summary_report(successful, failed, mode_name) ==
  LET total_files == Len(successful) + Len(failed)
  IN [printed |-> TRUE, mode |-> mode_name, total_files |-> total_files,
      success_count |-> Len(successful), failure_count |-> Len(failed),
      success_rate |-> IF total_files > 0 THEN RoundDiv(Len(successful) * 1000, total_files) ELSE 0,
      failed_files |-> failed]

\* Success reported while at most one file failed.
OverallSuccess_lenient(failed) == Len(failed) <= 1

\* return len(failed_files) == 0
OverallSuccess(failed) == Len(failed) = 0

\* main, config_path a file: orchestrator = ETLOrchestrator();
\* process_single_file calls orchestrate.
MainSingle ==
  /\ bpc = "start" /\ mode = "single"
  /\ orchestrators' = [orchestrators EXCEPT ![0] = [NewOrchestrator(0) EXCEPT !.users = {1}]]
  /\ run' = Call(1, 0)
  /\ bpc' = "single"
  /\ UNCHANGED <<call, mode, num_threads, inputs, today, idx, fs, successful_files, failed_files,
                 collected, retval, summary>>

\* process_single_file after orchestrate returned.
SingleReturn ==
  /\ bpc = "single" /\ run[1].returned
  /\ retval' = IF run[1].result.code = 0 THEN "True"
               ELSE IF run[1].result.code = 1 THEN "False" ELSE "None"
  /\ bpc' = "done"
  /\ UNCHANGED <<call, mode, num_threads, inputs, today, idx, run, orchestrators, fs,
                 successful_files, failed_files, collected, summary>>

\* item.lower() for the letters of the suffix.
lower(c) ==
  CASE c = "J" -> "j" [] c = "S" -> "s" [] c = "O" -> "o" [] c = "N" -> "n" [] OTHER -> c

\* item.lower().endswith(".json")
IsJsonName(item) ==
  /\ Len(item) >= 5
  /\ [x \in 1..5 |-> lower(item[Len(item) - 5 + x])] = <<".", "j", "s", "o", "n">>

\* The .json files that are in the directory now and were written by a run.
NewJsonFiles ==
  {p \in DOMAIN fs :
     /\ fs[p].present
     /\ Len(p) > Len(directory_path) + 1
     /\ SubSeq(p, 1, Len(directory_path) + 1) = directory_path \o <<"/">>
     /\ IsJsonName(PathName(p))}

\* A listing taken again at every iteration: a record written into the
\* directory meanwhile is listed first and moves the descriptors down by one.
json_files_relisted ==
  [k \in 1..Len(inputs) |-> IF NewJsonFiles # {} /\ k > 1 THEN k - 1 ELSE k]

\* all_items = os.listdir(directory_path); json_files = [item for item in
\* all_items if item.lower().endswith(".json")], read once before any run:
\* the descriptor files the directory holds at the start, in listing order.
json_files == [k \in 1..Len(inputs) |-> k]

\* main, sequential: orchestrator = ETLOrchestrator(); process_directory lists
\* the directory and returns False when it holds no JSON file.
SeqStart ==
  /\ bpc = "start" /\ mode = "sequential"
  /\ orchestrators' = [orchestrators EXCEPT ![0] = NewOrchestrator(0)]
  /\ IF N = 0 THEN bpc' = "done" /\ retval' = "False"
     ELSE bpc' = "loop" /\ retval' = retval
  /\ UNCHANGED <<call, mode, num_threads, inputs, today, idx, run, fs, successful_files,
                 failed_files, collected, summary>>

\* The instance the sequential loop runs file i on.
SequentialOrchestrator(i) == 0

\* A loop that stops at the first failed file.
LoopContinues_break(result) == result.code = 0

\* Whether the loop of process_directory goes on to the next file after result.
LoopContinues(result) == TRUE

\* result = orchestrator.orchestrate(full_path), the call
SeqCall ==
  /\ bpc = "loop" /\ idx <= Len(json_files)
  /\ \E json_file \in {json_files[idx]} :
       /\ run[json_file].state = "idle"
       /\ run' = Call(json_file, SequentialOrchestrator(json_file))
       /\ orchestrators' = Use(json_file, SequentialOrchestrator(json_file))
  /\ UNCHANGED <<call, mode, num_threads, inputs, today, bpc, idx, fs, successful_files,
                 failed_files, collected, retval, summary>>

\* ... and the bookkeeping of the loop body once it returned
SeqRecord ==
  /\ bpc = "loop" /\ idx <= Len(json_files)
  /\ \E json_file \in {json_files[idx]} :
       /\ run[json_file].returned
       /\ IF run[json_file].result.code = 0
          THEN /\ successful_files' = Append(successful_files, json_file)
               /\ failed_files' = failed_files
          ELSE /\ failed_files' = Append(failed_files,
                                         [file |-> json_file,
                                          message |-> run[json_file].result.message])
               /\ successful_files' = successful_files
       /\ idx' = IF LoopContinues(run[json_file].result) THEN idx + 1 ELSE N + 1
  /\ UNCHANGED <<call, mode, num_threads, inputs, today, bpc, run, orchestrators, fs,
                 collected, retval, summary>>

\* print_summary_report(...); return len(failed_files) == 0
SeqFinish ==
  /\ bpc = "loop" /\ idx > N
  /\ summary' = print_summary_report(successful_files, failed_files, "Sequential")
  /\ retval' = BoolStr(OverallSuccess(failed_files))
  /\ bpc' = "done"
  /\ UNCHANGED <<call, mode, num_threads, inputs, today, idx, run, orchestrators, fs,
                 successful_files, failed_files, collected>>

\* process_directory_concurrent: lists the directory, returns False when it
\* holds no JSON file, else submits one process_file_worker per file to a
\* ThreadPoolExecutor(max_workers=num_threads), whose constructor raises
\* ValueError for max_workers <= 0; nothing catches it and the program ends.
ConcStart ==
  /\ bpc = "start" /\ mode = "concurrent"
  /\ IF N = 0 THEN bpc' = "done" /\ retval' = "False"
     ELSE IF num_threads <= 0 THEN bpc' = "crashed" /\ retval' = retval
     ELSE bpc' = "pool" /\ retval' = retval
  /\ UNCHANGED <<call, mode, num_threads, inputs, today, idx, run, orchestrators, fs,
                 successful_files, failed_files, collected, summary>>

Running == {j \in Files : run[j].state # "idle" /\ ~run[j].returned /\ ~run[j].propagated}

\* Workers sharing the instance of main.
WorkerOrchestrator_shared(i) == 0

\* The instance process_file_worker runs file i on: one it constructs itself.
WorkerOrchestrator(i) == i

\* A pool thread takes the next queued task: process_file_worker constructs
\* its ETLOrchestrator and calls orchestrate.
WorkerStart(i) ==
  /\ bpc = "pool"
  /\ \A j \in 1..(i - 1) : run[j].state # "idle"
  /\ Cardinality(Running) < num_threads
  /\ \E json_file \in {json_files[i]} :
       /\ run[json_file].state = "idle"
       /\ LET o == WorkerOrchestrator(json_file)
          IN /\ orchestrators' = [orchestrators EXCEPT
                                   ![o] = [NewOrchestrator(json_file) EXCEPT !.users = {json_file}]]
             /\ run' = Call(json_file, o)
  /\ UNCHANGED <<call, mode, num_threads, inputs, today, bpc, idx, fs, successful_files,
                 failed_files, collected, retval, summary>>

\* A collector that drops the result of a failed file.
Collect_drop(i) ==
  /\ bpc = "pool" /\ run[i].returned /\ i \notin collected
  /\ successful_files' = IF run[i].result.code = 0 THEN Append(successful_files, i)
                         ELSE successful_files
  /\ collected' = collected \cup {i}
  /\ UNCHANGED <<call, mode, num_threads, inputs, today, bpc, idx, run, orchestrators, fs,
                 failed_files, retval, summary>>

\* as_completed yields the future of file i; the loop body files its result.
Collect(i) ==
  /\ bpc = "pool" /\ run[i].returned /\ i \notin collected
  /\ IF run[i].result.code = 0
     THEN successful_files' = Append(successful_files, i) /\ failed_files' = failed_files
     ELSE /\ failed_files' = Append(failed_files, [file |-> i, message |-> run[i].result.message])
          /\ successful_files' = successful_files
  /\ collected' = collected \cup {i}
  /\ UNCHANGED <<call, mode, num_threads, inputs, today, bpc, idx, run, orchestrators, fs,
                 retval, summary>>

\* Every future has been yielded: print_summary_report(...);
\* return len(failed_files) == 0
ConcFinish ==
  /\ bpc = "pool" /\ collected = Files
  /\ summary' = print_summary_report(successful_files, failed_files, "Concurrent")
  /\ retval' = BoolStr(OverallSuccess(failed_files))
  /\ bpc' = "done"
  /\ UNCHANGED <<call, mode, num_threads, inputs, today, idx, run, orchestrators, fs,
                 successful_files, failed_files, collected>>

Next ==
  \/ MainSingle
  \/ SingleReturn
  \/ SeqStart
  \/ SeqCall
  \/ SeqRecord
  \/ SeqFinish
  \/ ConcStart
  \/ \E i \in Files : WorkerStart(i)
  \/ \E i \in Files : Collect(i)
  \/ ConcFinish
  \/ \E i \in Files : Stage(i)

Spec == Init /\ [][Next]_vars

\* Every thread that can take a step eventually takes one.
FairSpec == Spec /\ WF_vars(Next)

\* ------------------------------------------------------------ direct calls
\* The pipeline variables while one function is called on its own.
NoPipeline ==
  /\ mode = "none"
  /\ num_threads = 1
  /\ inputs = <<>>
  /\ today \in Todays
  /\ bpc = "done"
  /\ idx = 1
  /\ run = <<>>
  /\ orchestrators = [o \in {0} |-> NoOrchestrator]
  /\ fs = <<>>
  /\ successful_files = <<>>
  /\ failed_files = <<>>
  /\ collected = {}
  /\ retval = "None"
  /\ summary = NoSummary

pipeline_vars == <<mode, num_threads, inputs, today, bpc, idx, run, orchestrators, fs,
                   successful_files, failed_files, collected, retval, summary>>

\* ------------------------------------------- InputValidator.validate, alone
\* A key that the descriptor does not hold.
Absent == [t |-> "absent"]

OptItem(key, value) == IF value = Absent THEN <<>> ELSE <<Item(key, value)>>

\* The descriptor files validate is given: no file, a file that is not JSON,
\* a JSON list, and JSON objects with every subset of the two expected keys
\* and one other key, a context_path with a UUID or another last segment,
\* with a trailing separator, or not a string.
ValidateFiles ==
  {[exists |-> FALSE, json_ok |-> FALSE, value |-> Dict(<<>>)],
   [exists |-> TRUE, json_ok |-> FALSE, value |-> Dict(<<>>)],
   [exists |-> TRUE, json_ok |-> TRUE, value |-> [t |-> "list"]]}
  \cup {[exists |-> TRUE, json_ok |-> TRUE,
         value |-> Dict(OptItem(Key_context_path, c) \o OptItem(Key_results_path, r)
                        \o OptItem(<<"x">>, x))] :
          c \in {Absent, Str(GoodContextPath), Str(BadContextPath),
                 Str(GoodContextPath \o <<"/">>), IntVal(5)},
          r \in {Absent, Str(ResultsPath(1)), IntVal(5)},
          x \in {Absent, IntVal(1)}}

\* What exists on the filesystem: the data files live in the context
\* directory, so they exist only where it does.
ValidateEnvs ==
  {e \in [context_exists : BOOLEAN, dna_exists : BOOLEAN, metadata_exists : BOOLEAN] :
     ~e.context_exists => (~e.dna_exists /\ ~e.metadata_exists)}

ValidatorInit ==
  /\ NoPipeline
  /\ call \in {[fn |-> "validate", path |-> DescriptorPath(1), file |-> f, env |-> e,
                done |-> FALSE, result |-> Raise("", <<>>)] :
                 f \in ValidateFiles, e \in ValidateEnvs}

\* self.input_validator.validate(input_path)
CallValidate ==
  /\ call.fn = "validate" /\ ~call.done
  /\ call' = [call EXCEPT !.done = TRUE, !.result = validate(call.path, call.file, call.env)]
  /\ UNCHANGED pipeline_vars

ValidatorNext == CallValidate

ValidatorSpec == ValidatorInit /\ [][ValidatorNext]_vars

\* -------------------------------------- MetaDataValidator, called on its own
\* How deep below the top-level dict the metadata trees nest.
MaxDepth == 1

BoolVal(b) == [t |-> "bool", b |-> b]

Key_note == <<"n", "o", "t", "e">>

Key_visit == <<"v", "i", "s", "i", "t">>

\* Values under date_of_birth: birth dates of a 46- and a 16-year-old, a
\* string that is no date, a number, and a date of a 46-year-old longer than
\* it need be in the last accepted format.
BirthValues ==
  {Str(<<"1", "9", "8", "0", "-", "0", "5", "-", "1", "5">>),
   Str(<<"2", "0", "1", "0", "-", "0", "1", "-", "0", "1">>),
   Str(<<"s", "o", "o", "n">>),
   IntVal(1980)}

\* Values under any other key: a short string, strings of 64 and 65
\* characters, a date inside and a date outside 2014-2024, a number, a
\* boolean and a list.
OtherValues ==
  {Str(<<"J", "o">>),
   Str(Rep("a", MAX_VALUE_LEN)),
   Str(Rep("a", MAX_VALUE_LEN + 1)),
   Str(<<"1", "5", "/", "0", "1", "/", "2", "0", "2", "0">>),
   Str(<<"2", "0", "3", "0", "-", "1", "2", "-", "3", "1">>),
   IntVal(5),
   BoolVal(TRUE),
   [t |-> "list"]}

LeafItems ==
  {Item(Key_date_of_birth, v) : v \in BirthValues} \cup {Item(Key_note, v) : v \in OtherValues}

\* The dicts without a nested dict: a dict holds a key once, in either order.
LeafDicts ==
  {Dict(<<>>)} \cup {Dict(<<a>>) : a \in LeafItems}
  \cup {Dict(<<p[1], p[2]>>) : p \in {q \in LeafItems \X LeafItems : q[1].k # q[2].k}}

\* The metadata trees nesting at most depth levels: a nested dict sits under
\* 'visit', alone or after one other item, or alone under 'date_of_birth'.
RECURSIVE MetadataTrees(_)
MetadataTrees(depth) ==
  IF depth = 0 THEN LeafDicts
  ELSE LET sub == MetadataTrees(depth - 1) IN
       LeafDicts
       \cup {Dict(<<Item(k, c)>>) : k \in {Key_visit, Key_date_of_birth}, c \in sub}
       \cup {Dict(<<a, Item(Key_visit, c)>>) : a \in LeafItems, c \in sub}

\* A bool returned by the validator; the validator has no raise statement.
Returned(b) == [raised |-> "", value |-> b]

TwoDigits(n) == <<Digits[(n \div 10) + 1], Digits[(n % 10) + 1]>>

\* strftime('%Y-%m-%d') of a date with a four-digit year.
FormatYmd(y, m, d) ==
  TwoDigits(y \div 100) \o TwoDigits(y % 100) \o <<"-">> \o TwoDigits(m) \o <<"-">> \o TwoDigits(d)

\* The days datetime.now() is read on, and the birth dates tried against
\* them: birthdays before, on and after each of those days and on 29
\* February, in the years that make the participant 38 to 41.
Nows ==
  Todays \cup {[year |-> 2024, month |-> 2, day |-> 29],
               [year |-> 2026, month |-> 1, day |-> 1],
               [year |-> 2026, month |-> 12, day |-> 31]}

BirthDates ==
  {[year |-> y, month |-> m, day |-> d] :
     y \in 1984..1988, m \in {1, 2, 11, 12}, d \in {1, 2, 3, 4, 28, 29, 31}}

MetadataInit ==
  /\ NoPipeline
  /\ call \in {[fn |-> "validate_metadata", metadata_dict |-> t, now |-> n,
                done |-> FALSE, result |-> Returned(FALSE)] :
                 t \in MetadataTrees(MaxDepth), n \in Todays}
          \cup {[fn |-> "_validate_birth_date_value", birth |-> b,
                 value |-> Str(FormatYmd(b.year, b.month, b.day)), now |-> n,
                 done |-> FALSE, result |-> Returned(FALSE)] :
                  b \in BirthDates, n \in Nows}

\* self.metadata_validator.validate_metadata(meta_data)
CallValidateMetadata ==
  /\ call.fn = "validate_metadata" /\ ~call.done
  /\ call' = [call EXCEPT !.done = TRUE,
                          !.result = Returned(validate_metadata(call.metadata_dict, call.now))]
  /\ UNCHANGED pipeline_vars

\* self._validate_birth_date_value(metadata_value)
CallValidateBirthDate ==
  /\ call.fn = "_validate_birth_date_value" /\ ~call.done
  /\ call' = [call EXCEPT !.done = TRUE,
                          !.result = Returned(_validate_birth_date_value(call.value, call.now))]
  /\ UNCHANGED pipeline_vars

MetadataNext == CallValidateMetadata \/ CallValidateBirthDate

MetadataSpec == MetadataInit /\ [][MetadataNext]_vars

\* -------------------------------------- MetaDataProcessor, called on its own
\* Dicts are objects: the heap is the sequence of the dict objects made so
\* far, an object is its items in insertion order, and a dict stored as a
\* value is a reference to its object.
Ref(id) == [t |-> "ref", id |-> id]

\* The object a dict literal makes.
FreshId_input(heap) == 1

FreshId(heap) == Len(heap) + 1

\* cleaned_dict = {}
NewDict(heap, id) == IF id > Len(heap) THEN Append(heap, <<>>) ELSE [heap EXCEPT ![id] = <<>>]

\* json.load of a metadata tree: one object for every dict of the tree.
RECURSIVE load_items(_, _, _, _)
load_items(heap, self, items, j) ==
  IF j > Len(items) THEN heap
  ELSE IF items[j].v.t = "dict"
  THEN LET child == Len(heap) + 1
           loaded == load_items(Append(heap, <<>>), child, items[j].v.d, 1)
       IN load_items([loaded EXCEPT ![self] = Append(@, Item(items[j].k, Ref(child)))],
                     self, items, j + 1)
  ELSE load_items([heap EXCEPT ![self] = Append(@, items[j])], self, items, j + 1)

json_load(tree) == load_items(<< <<>> >>, 1, tree.d, 1)

\* The tree an object holds, as == compares it.
RECURSIVE Deref(_, _)
Deref(heap, id) ==
  Dict([j \in 1..Len(heap[id]) |->
          IF heap[id][j].v.t = "ref"
          THEN Item(heap[id][j].k, Deref(heap, heap[id][j].v.id))
          ELSE heap[id][j]])

\* remove_private_keys on the heap: the for loop from its j-th item on, and
\* the whole call, which gives the heap it leaves and the object it returns.
RECURSIVE remove_private_keys_loop(_, _, _, _)
RECURSIVE remove_private_keys_call(_, _)
\* if key.startswith("_"): continue, at the j-th item of the loop.
KeyIsSkipped_first(key, j) == IsPrivate(key) /\ j = 1

KeyIsSkipped(key, j) == IsPrivate(key)

remove_private_keys_loop(heap, cleaned_dict, meta_data, j) ==
  IF j > Len(heap[meta_data]) THEN heap
  ELSE LET key == heap[meta_data][j].k
           value == heap[meta_data][j].v
       IN IF KeyIsSkipped(key, j)
          THEN remove_private_keys_loop(heap, cleaned_dict, meta_data, j + 1)
          ELSE IF value.t = "ref"
          THEN LET r == remove_private_keys_call(heap, value.id)
               IN remove_private_keys_loop(
                    [r.heap EXCEPT ![cleaned_dict] = Append(@, Item(key, Ref(r.id)))],
                    cleaned_dict, meta_data, j + 1)
          ELSE remove_private_keys_loop(
                 [heap EXCEPT ![cleaned_dict] = Append(@, Item(key, value))],
                 cleaned_dict, meta_data, j + 1)

remove_private_keys_call(heap, meta_data) ==
  LET cleaned_dict == FreshId(heap)
  IN [heap |-> remove_private_keys_loop(NewDict(heap, cleaned_dict), cleaned_dict, meta_data, 1),
      id |-> cleaned_dict]

\* The items a dict of the trees may hold besides a nested dict, in the
\* order they are inserted: a public string, two private values and a list.
PrivacyItems ==
  <<Item(<<"a">>, Str(<<"v">>)),
    Item(<<"_", "b">>, IntVal(1)),
    Item(<<"_", "c">>, Str(<<"s">>)),
    Item(<<"l">>, [t |-> "list"])>>

\* The dicts without a nested dict: every choice of the first three items,
\* the list alone and all four.
PrivacyLeafDicts ==
  {Dict(SelectSeq(PrivacyItems, LAMBDA it : it \in S)) :
     S \in SUBSET SeqRange(SubSeq(PrivacyItems, 1, 3))
           \cup {{PrivacyItems[4]}, SeqRange(PrivacyItems)}}

\* The trees nesting at most depth levels: a nested dict sits first in its
\* dict under a public key, or last under a public or a private key.
RECURSIVE PrivacyTrees(_)
PrivacyTrees(depth) ==
  IF depth = 0 THEN PrivacyLeafDicts
  ELSE LET sub == PrivacyTrees(depth - 1) IN
       PrivacyLeafDicts
       \cup {Dict(<<Item(<<"n">>, c)>> \o l.d) : c \in sub, l \in PrivacyLeafDicts}
       \cup {Dict(l.d \o <<Item(k, c)>>) :
               k \in {<<"n">>, <<"_", "n">>}, c \in sub, l \in PrivacyLeafDicts}

\* The calls: the first on the loaded tree, the second on what the first
\* returned.
PrivacyInit ==
  /\ NoPipeline
  /\ call \in {[fn |-> "remove_private_keys", before |-> json_load(t), heap |-> json_load(t),
                meta_data |-> 1, results |-> <<>>] : t \in PrivacyTrees(MaxDepth)}

\* result = self.processor.remove_private_keys(metadata)
CallRemovePrivateKeys ==
  /\ call.fn = "remove_private_keys" /\ Len(call.results) < 2
  /\ \E r \in {remove_private_keys_call(
                 call.heap, IF call.results = <<>> THEN call.meta_data ELSE call.results[1])} :
       call' = [call EXCEPT !.heap = r.heap, !.results = Append(@, r.id)]
  /\ UNCHANGED pipeline_vars

PrivacyNext == CallRemovePrivateKeys

PrivacySpec == PrivacyInit /\ [][PrivacyNext]_vars

\* --------------------------------------- DNAProcessor LCS, called on its own
\* The longest sequence of the pairs compared, and the most sequences
\* _find_lcs is given.
MaxSeqLen == 3

MaxSeqs == 3

\* The sequences compared in pairs: all over A and T up to the longest
\* length, and three with a G.
RECURSIVE StringsOver(_, _)
StringsOver(alphabet, n) ==
  IF n = 0 THEN {<<>>}
  ELSE StringsOver(alphabet, n - 1)
       \cup {Append(s, c) : s \in {t \in StringsOver(alphabet, n - 1) : Len(t) = n - 1},
                            c \in alphabet}

LcsStrings ==
  StringsOver({"A", "T"}, MaxSeqLen) \cup {<<"G">>, <<"T", "G", "G">>, <<"G", "A", "T">>}

\* The sequences _find_lcs is given lists of.
LcsPool ==
  {<<"A", "T">>, <<"T", "A">>, <<"T", "T">>, <<"G", "A", "T">>, <<"G", "A", "A", "T">>}

\* Lists whose sequences share characters but no kept block, or nothing.
LcsExtraLists ==
  {<<<<"A", "A", "T">>, <<"T", "G", "G">>>>,
   <<<<"A", "A">>, <<"T", "T">>>>,
   <<<<"A", "A">>, <<"T", "T">>, <<"G">>>>}

RECURSIVE ListsOf(_, _)
ListsOf(S, n) ==
  IF n = 0 THEN {<<>>}
  ELSE ListsOf(S, n - 1)
       \cup {Append(l, s) : l \in {t \in ListsOf(S, n - 1) : Len(t) = n - 1}, s \in S}

LcsInit ==
  /\ NoPipeline
  /\ call \in {[fn |-> "_longest_common_subsequence", seq1 |-> s1, seq2 |-> s2,
                done |-> FALSE, result |-> <<>>] : s1 \in LcsStrings, s2 \in LcsStrings}
          \cup {[fn |-> "_find_lcs", sequences |-> l, lcs_values |-> <<>>,
                 done |-> FALSE, result |-> NoLcs] :
                  l \in ListsOf(LcsPool, MaxSeqs) \cup LcsExtraLists}

\* self._longest_common_subsequence(seq1, seq2)
CallLongestCommonSubsequence ==
  /\ call.fn = "_longest_common_subsequence" /\ ~call.done
  /\ \E script \in editops(call.seq1, call.seq2) :
       call' = [call EXCEPT !.done = TRUE,
                            !.result = _longest_common_subsequence(call.seq1, call.seq2, script)]
  /\ UNCHANGED pipeline_vars

\* self._find_lcs(dna_data)
CallFindLcs ==
  /\ call.fn = "_find_lcs" /\ ~call.done
  /\ \E v \in LcsValues(call.sequences) :
       call' = [call EXCEPT !.done = TRUE, !.lcs_values = v,
                            !.result = _find_lcs(call.sequences, v)]
  /\ UNCHANGED pipeline_vars

LcsNext == CallLongestCommonSubsequence \/ CallFindLcs

LcsSpec == LcsInit /\ [][LcsNext]_vars

\* ------------------------------- DNAProcessor analysis, called on its own
\* The most calls made on one DNAProcessor instance.
MaxCalls == 2

\* The sequences _analyze_sequence is called with: shorter than a triplet,
\* whole triplets, one and two characters over, all, none and half G or C,
\* and the empty one.
AnalyzerStrings ==
  {<<>>, <<"A", "T">>, <<"G", "C", "G">>, <<"G", "C", "G", "C">>, <<"A", "T", "G", "C">>,
   <<"A", "T", "A", "T", "C">>, <<"A", "T", "C", "A", "T", "C">>,
   <<"A", "T", "C", "G", "C", "G">>, <<"A", "T", "C", "A", "T", "C", "A">>}

\* The sequence lists transform_dna is called with.
AnalyzerLists ==
  {<<>>,
   <<<<"A", "T", "C", "A", "T", "C">>>>,
   <<<<"A", "T", "C", "G", "C", "G">>>>,
   <<<<"G", "C", "G">>, <<"A", "T">>>>,
   <<<<"G", "C", "G", "G", "C", "G">>, <<"A", "T", "C", "G">>>>,
   <<<<"G", "C", "G">>, <<>>, <<"A", "T", "C">>>>}

\* processor = DNAProcessor()
AnalyzerInit ==
  /\ NoPipeline
  /\ call = [fn |-> "DNAProcessor", codon_frequencies |-> <<>>, analysed |-> <<>>,
             calls |-> 0, last |-> [fn |-> "__init__"]]

\* processor._analyze_sequence(sequence)
CallAnalyzeSequence ==
  /\ call.fn = "DNAProcessor" /\ call.calls < MaxCalls
  /\ \E sequence \in AnalyzerStrings :
       IF sequence = <<>>
       THEN call' = [call EXCEPT !.calls = @ + 1,
                                 !.last = [fn |-> "_analyze_sequence", sequence |-> sequence,
                                           raised |-> "ZeroDivisionError",
                                           before |-> call.codon_frequencies]]
       ELSE \E a \in {_analyze_sequence(sequence, call.codon_frequencies)} :
              call' = [call EXCEPT !.calls = @ + 1,
                                   !.codon_frequencies = a.codon_frequencies,
                                   !.analysed = Append(@, sequence),
                                   !.last = [fn |-> "_analyze_sequence", sequence |-> sequence,
                                             raised |-> "", result |-> a.analysis,
                                             before |-> call.codon_frequencies]]
  /\ UNCHANGED pipeline_vars

\* processor.transform_dna(dna_data)
CallTransformDna ==
  /\ call.fn = "DNAProcessor" /\ call.calls < MaxCalls
  /\ \E sequences \in AnalyzerLists :
     \E lcs_data \in LcsResults(sequences) :
     \E t \in {transform_dna(sequences, call.codon_frequencies, lcs_data)} :
       call' = [call EXCEPT !.calls = @ + 1,
                            !.codon_frequencies = t.codon_frequencies,
                            !.analysed = @ \o SubSeq(sequences, 1, Len(t.result.sequences)),
                            !.last = IF t.raised
                                     THEN [fn |-> "transform_dna", sequences |-> sequences,
                                           raised |-> "ZeroDivisionError",
                                           before |-> call.codon_frequencies]
                                     ELSE [fn |-> "transform_dna", sequences |-> sequences,
                                           raised |-> "", result |-> t.result,
                                           before |-> call.codon_frequencies]]
  /\ UNCHANGED pipeline_vars

AnalyzerNext == CallAnalyzeSequence \/ CallTransformDna

AnalyzerSpec == AnalyzerInit /\ [][AnalyzerNext]_vars

\* ------------------------------------------------------------------ claims
Batch == mode \in {"sequential", "concurrent"}

Started(i) == run[i].state # "idle"

\* C1: orchestrate never lets an exception escape: whenever a stage raised,
\* the call returned a non-zero status whose message is the text of the
\* exception raised, prefixed by "Unknown exception: " when the class is not
\* a recognised one; every returned status is 0 or 1.
C1_ReturnsPairNeverRaises ==
  \A i \in Files :
    /\ ~run[i].propagated
    /\ run[i].returned => run[i].result.code \in {0, 1}
    /\ (run[i].state = "Failed" \/ run[i].exc # NoException) =>
         /\ run[i].returned
         /\ run[i].result.code # 0
         /\ run[i].result.message.text = str(run[i].exc)
         /\ run[i].result.message.prefix =
              (IF run[i].exc.type \in valid_exceptions THEN "" ELSE "Unknown exception: ")

\* A run whose descriptor is not JSON has returned the wrapped JSONDecodeError.
C1_Witness ==
  \E i \in Files :
    /\ run[i].returned /\ run[i].exc.type = "JSONDecodeError"
    /\ run[i].result.message.prefix = "Unknown exception: "

\* C2: status 0 is returned only if the output record was written to the
\* results path; a run whose results path cannot be written ends with a
\* non-zero status carrying the typed load failure.
C2_SuccessOnlyIfWritten ==
  \A i \in Files :
    /\ (run[i].returned /\ run[i].result.code = 0) =>
         (run[i].saved /\ fs[ResultsPath(i)] # NoFile)
    /\ (run[i].returned /\ "load" \in SeqRange(run[i].log) /\ ~inputs[i].writable) =>
         (run[i].result.code # 0 /\ run[i].exc.type = "LoadException")

\* Whether a stage of run i that has executed did not succeed: it raised, the
\* metadata did not pass validation, or the record was not written.
StageDidNotSucceed(i, stage) ==
  \/ run[i].failed_stage = stage
  \/ stage = "validate_metadata" /\ run[i].valid_metadata = "False"
  \/ stage = "load" /\ stage \in SeqRange(run[i].log) /\ ~run[i].saved

\* C3: the stages of a run execute at most once each, in the order path
\* resolution, extraction, metadata validation, transformation, persistence;
\* a stage that did not succeed is the last one executed and leaves the run
\* in Failed.
C3_StagesInOrderFailFast ==
  \A i \in Files :
    /\ Len(run[i].log) <= 5
    /\ run[i].log = SubSeq(<<"validate_input", "extract", "validate_metadata", "transform", "load">>,
                           1, Len(run[i].log))
    /\ \A k \in 1..Len(run[i].log) :
         StageDidNotSucceed(i, run[i].log[k]) =>
           (k = Len(run[i].log) /\ run[i].state = "Failed")

\* C4: metadata that breaks a validation rule ends the run in Failed with a
\* non-zero status whose message names the rule's error kind, and neither
\* transformation nor persistence executes.
C4_InvalidMetadataFailsRun ==
  \A i \in Files :
    ("validate_metadata" \in SeqRange(run[i].log) /\ RuleKind(inputs[i].meta) # "") =>
      /\ run[i].state = "Failed"
      /\ run[i].result.code # 0
      /\ run[i].exc.type = RuleKind(inputs[i].meta)
      /\ "transform" \notin SeqRange(run[i].log)
      /\ "load" \notin SeqRange(run[i].log)

\* C5: a run that returned a non-zero status because path resolution,
\* extraction or metadata validation failed has not written the file at its
\* results path.
C5_EarlyFailureWritesNothing ==
  \A i \in Files :
    (run[i].returned /\ run[i].result.code # 0
     /\ run[i].failed_stage \in {"validate_input", "extract", "validate_metadata"}) =>
      (~run[i].saved /\ fs[ResultsPath(i)] = NoFile)

\* A run failed in extraction, after its results path had been resolved.
C5_Witness ==
  \E i \in Files :
    /\ run[i].returned /\ run[i].result.code # 0 /\ run[i].failed_stage = "extract"
    /\ run[i].verified_paths.output_path = ResultsPath(i)
    /\ fs[ResultsPath(i)] = NoFile

Recorded == SeqRange(successful_files) \cup {failed_files[k].file : k \in 1..Len(failed_files)}

AloneMostCommon(i) ==
  transform_dna(_extract_dna(DnaFile(inputs[i].dna)), <<>>, NoLcs).result.most_common_codon

\* C7: in both batch modes the most_common_codon written for a participant is
\* the one its own sequences give when processed alone.
C7_CodonIsolation ==
  Batch =>
    \A i \in Files :
      run[i].saved =>
        fs[ResultsPath(i)].content.results[1].txt.most_common_codon = AloneMostCommon(i)

\* C8: in concurrent mode every started task runs on an instance constructed
\* by that task, which no other task runs on or has used.
C8_OwnOrchestratorPerTask ==
  mode = "concurrent" =>
    \A i \in Files :
      Started(i) =>
        /\ orchestrators[run[i].orch].constructed
        /\ orchestrators[run[i].orch].by = i
        /\ orchestrators[run[i].orch].users \subseteq {i}
        /\ \A j \in Files : (j # i /\ Started(j)) => run[j].orch # run[i].orch

\* Two tasks are inside orchestrate at the same time, both past the
\* transformation that updates the accumulator.
C8_Witness ==
  /\ mode = "concurrent" /\ N >= 2
  /\ \E i, j \in Files :
       /\ i # j
       /\ "transform" \in SeqRange(run[i].log) /\ ~run[i].returned
       /\ "transform" \in SeqRange(run[j].log) /\ ~run[j].returned

C10_AlwaysSummary ==
  (Batch /\ bpc \in {"done", "crashed"}) => summary.printed

\* The summary of a finished batch: the counts and the failure list recorded.
SummaryOfBatch ==
  /\ summary.printed
  /\ summary.total_files = N
  /\ summary.success_count = Len(successful_files)
  /\ summary.failure_count = Len(failed_files)
  /\ summary.success_count + summary.failure_count = N
  /\ summary.failed_files = failed_files
  /\ \A k \in 1..Len(failed_files) :
       failed_files[k].message = run[failed_files[k].file].result.message

\* C10, amended: a batch run over at least one descriptor file, with a
\* positive worker count in concurrent mode, eventually completes with the
\* summary printed, also when every input fails; over no descriptor file it
\* completes without a summary.
C10_BatchCompletesWithSummary ==
  /\ (Batch /\ N > 0 /\ num_threads > 0) ~> (bpc = "done" /\ SummaryOfBatch)
  /\ (Batch /\ N = 0) ~> (bpc = "done" /\ ~summary.printed)

\* A finished batch of two files that both failed, with its summary.
C10_Witness ==
  /\ Batch /\ bpc = "done" /\ N = 2 /\ summary.printed
  /\ summary.success_count = 0 /\ summary.failure_count = 2

\* ---------------------------------------------------------------- claim C11
\* The status orchestrate returns for file i when it is processed alone on a
\* fresh orchestrator: 1 when a statement of the try block raises, else 0.
AloneCode(i) ==
  IF validate(DescriptorPath(i), DescriptorFile(i, inputs[i].desc),
              Environment(inputs[i].desc)).raised THEN 1
  ELSE IF ~MetadataFile(inputs[i].meta).json_ok THEN 1
  ELSE IF MetadataFile(inputs[i].meta).value.t # "dict" THEN 1
  ELSE IF transform_dna(_extract_dna(DnaFile(inputs[i].dna)), <<>>, NoLcs).raised THEN 1
  ELSE 0

FailedFileSet == {failed_files[k].file : k \in 1..Len(failed_files)}

IsObject(file) == file.value.t = "dict"

HasStr(file, key) == DictHas(file.value.d, key) /\ DictValue(file.value.d, key).t = "str"

CheckHolds(k, file, env) ==
  CASE k = 1 -> file.exists /\ file.json_ok
    [] k = 2 -> IsObject(file) /\ DictKeys(file.value.d) = {Key_context_path, Key_results_path}
    [] k = 3 -> HasStr(file, Key_context_path)
                /\ IsUUID(PathName(DictValue(file.value.d, Key_context_path).s))
    [] k = 4 -> env.context_exists
    [] k = 5 -> env.dna_exists /\ env.metadata_exists

\* The first check that does not hold, 6 when all five hold.
FirstFailing(file, env) ==
  CHOOSE k \in 1..6 : /\ \A j \in 1..(k - 1) : CheckHolds(j, file, env)
                      /\ k <= 5 => ~CheckHolds(k, file, env)

\* The descriptor is a JSON object whose values are strings, or not JSON.
WellTyped(file) ==
  (file.exists /\ file.json_ok) =>
    /\ IsObject(file)
    /\ \A i \in 1..Len(file.value.d) : file.value.d[i].v.t = "str"

\* The check at which validate raised exc: the statement that raises it.
StepOf(exc, c) ==
  CASE exc.type = "JSONDecodeError" -> 1
    [] exc.type = "InputFileDoesNotExist" /\ exc.arg = c.path -> 1
    [] exc.type \in {"InvalidInputKeys", "AttributeError"} -> 2
    [] exc.type \in {"InvalidUUID", "TypeError"} -> 3
    [] exc.type = "ContextPathDoesNotExist" -> 4
    [] exc.type = "InputFileDoesNotExist" -> 5
    [] OTHER -> 0

\* The error kind validate raises at each check, on a well-typed descriptor.
KindOfCheck(k, c) ==
  CASE k = 1 -> IF c.file.exists THEN "JSONDecodeError" ELSE "InputFileDoesNotExist"
    [] k = 2 -> "InvalidInputKeys"
    [] k = 3 -> "InvalidUUID"
    [] k = 4 -> "ContextPathDoesNotExist"
    [] k = 5 -> "InputFileDoesNotExist"

\* C12: validate fails at the first of the checks descriptor loadable, key
\* set, UUID of the last context_path segment, context_path exists, data
\* files exist that does not hold, whatever later checks would give, and on
\* a well-typed descriptor with the error kind of that check.
C12_FirstFailingCheckDecides ==
  (call.fn = "validate" /\ call.done) =>
    LET k == FirstFailing(call.file, call.env)
    IN k <= 5 =>
         /\ call.result.raised
         /\ StepOf(call.result.exc, call) = k
         /\ WellTyped(call.file) => call.result.exc.type = KindOfCheck(k, call)

\* A descriptor whose context_path has a non-UUID last segment and does not
\* exist either has failed with InvalidUUID.
C12_Witness ==
  /\ call.fn = "validate" /\ call.done
  /\ WellTyped(call.file)
  /\ CheckHolds(1, call.file, call.env) /\ CheckHolds(2, call.file, call.env)
  /\ ~CheckHolds(3, call.file, call.env) /\ ~CheckHolds(4, call.file, call.env)
  /\ call.result.raised /\ call.result.exc.type = "InvalidUUID"

\* ---------------------------------------------------------------- claim C13
\* The typed error kind the taxonomy declares for each failure condition of
\* path resolution.
DeclaredKind(k) ==
  CASE k = 1 -> "InvalidJSONFormat"
    [] k = 2 -> "InvalidInputKeys"
    [] k = 3 -> "InvalidUUID"
    [] k = 4 -> "ContextPathDoesNotExist"
    [] k = 5 -> "DataFileDoesNotExist"

\* C13: on a descriptor file that exists and is well-typed, each of the five
\* failure conditions (not JSON, wrong key set, bad UUID, missing context
\* directory, missing data file) is reported with its own typed kind, which
\* is a recognised one.
C13_OwnTypedKindPerCondition ==
  (call.fn = "validate" /\ call.done /\ call.file.exists /\ WellTyped(call.file)) =>
    LET k == FirstFailing(call.file, call.env)
    IN k <= 5 =>
         /\ call.result.raised
         /\ call.result.exc.type = DeclaredKind(k)
         /\ call.result.exc.type \in valid_exceptions

\* The key/value pairs of a tree whose value is not a dict, at every depth.
RECURSIVE Leaves(_)
Leaves(items) ==
  UNION {IF items[i].v.t = "dict" THEN Leaves(items[i].v.d) ELSE {items[i]} :
           i \in 1..Len(items)}

BirthLeafPasses(v, now) ==
  /\ v.t = "str"
  /\ _parse_date_string(v.s).ok
  /\ _calculate_age(_parse_date_string(v.s), now) >= MIN_AGE

StringLeafPasses(v) ==
  v.t = "str" =>
    /\ Len(v.s) <= MAX_VALUE_LEN
    /\ _parse_date_string(v.s).ok =>
         (YEAR_RANGE_LOWER <= _parse_date_string(v.s).year
          /\ _parse_date_string(v.s).year <= YEAR_RANGE_UPPER)

\* The same tree with the items of every dict in the opposite order.
RECURSIVE Reversed(_)
Reversed(items) ==
  [j \in 1..Len(items) |->
     LET it == items[Len(items) + 1 - j] IN
       IF it.v.t = "dict" THEN Item(it.k, Dict(Reversed(it.v.d))) ELSE it]

\* C14: validate_metadata returns True exactly when every date_of_birth leaf
\* at every depth is a date string giving an age of at least 40 and every
\* other string leaf is at most 64 characters long and, where it parses as a
\* date, has its year in 2014..2024; leaves that are no strings under other
\* keys never matter, and the tree with its keys iterated in the opposite
\* order gets the same answer.
C14_AcceptsIffEveryLeafPasses ==
  (call.fn = "validate_metadata" /\ call.done) =>
    /\ call.result.raised = ""
    /\ call.result.value
         <=> \A l \in Leaves(call.metadata_dict.d) :
               IF l.k = Key_date_of_birth THEN BirthLeafPasses(l.v, call.now)
               ELSE StringLeafPasses(l.v)
    /\ call.result.value = validate_metadata(Dict(Reversed(call.metadata_dict.d)), call.now)

\* C14 witness: a tree rejected only for a date outside 2014-2024 in a nested
\* dict, every date_of_birth in it being that of a 46-year-old.
C14_Witness ==
  /\ call.fn = "validate_metadata" /\ call.done
  /\ ~call.result.value
  /\ Len(call.metadata_dict.d) = 2
  /\ call.metadata_dict.d[1] = Item(Key_date_of_birth, Str(<<"1", "9", "8", "0", "-", "0", "5", "-", "1", "5">>))
  /\ call.metadata_dict.d[2].v.t = "dict"
  /\ Len(call.metadata_dict.d[2].v.d) = 2
  /\ \E l \in Leaves(call.metadata_dict.d) :
       /\ l.v = Str(<<"2", "0", "3", "0", "-", "1", "2", "-", "3", "1">>)
       /\ \A o \in Leaves(call.metadata_dict.d) \ {l} :
            IF o.k = Key_date_of_birth THEN BirthLeafPasses(o.v, call.now)
            ELSE StringLeafPasses(o.v)

\* The age the claim describes: the difference of the years, one less while
\* this year's birthday is still ahead.
ClaimedAge(birth, now) ==
  now.year - birth.year
  - (IF now.month < birth.month \/ (now.month = birth.month /\ now.day < birth.day)
     THEN 1 ELSE 0)

IsCalendarDate(b) == b.day <= DaysInMonth(b.year, b.month)

\* C15: for a date_of_birth that is a calendar date, the age computed from
\* the string is the difference of the years less one exactly while the
\* birthday is still ahead; an age of 40 or more, the 40th birthday itself
\* included, is accepted; the same day and month with the year that gives
\* age 39 fails with InvalidParticipantAge.
C15_AgeRuleRaisesWhenTooYoung ==
  (call.fn = "_validate_birth_date_value" /\ call.done /\ IsCalendarDate(call.birth)) =>
    /\ _calculate_age(_parse_date_string(call.value.s), call.now)
         = ClaimedAge(call.birth, call.now)
    /\ ClaimedAge(call.birth, call.now) >= MIN_AGE => call.result = Returned(TRUE)
    /\ ClaimedAge(call.birth, call.now) = MIN_AGE - 1 =>
         call.result.raised = "InvalidParticipantAge"

\* What holds of the age rule: the returned bool is True exactly from age 40.
C15_AgeRuleWithoutRaise ==
  (call.fn = "_validate_birth_date_value" /\ call.done /\ IsCalendarDate(call.birth)) =>
    /\ _calculate_age(_parse_date_string(call.value.s), call.now)
         = ClaimedAge(call.birth, call.now)
    /\ ClaimedAge(call.birth, call.now) >= MIN_AGE <=> call.result = Returned(TRUE)

\* A participant whose 40th birthday is today is accepted.
C15_FortiethBirthday ==
  /\ call.fn = "_validate_birth_date_value" /\ call.done
  /\ call.birth = [year |-> 1986, month |-> 11, day |-> 3]
  /\ call.now = [year |-> 2026, month |-> 11, day |-> 3]
  /\ call.result = Returned(TRUE)

\* The paths of a tree: the keys from the root to a value, with the value
\* itself or, for a dict, an empty dict to say that a dict is there.
RECURSIVE Paths(_, _)
Paths(items, prefix) ==
  UNION {IF items[j].v.t = "dict"
         THEN {[path |-> Append(prefix, items[j].k), value |-> Dict(<<>>)]}
              \cup Paths(items[j].v.d, Append(prefix, items[j].k))
         ELSE {[path |-> Append(prefix, items[j].k), value |-> items[j].v]} :
           j \in 1..Len(items)}

PublicPath(p) == \A j \in 1..Len(p) : ~(p[j] # <<>> /\ p[j][1] = "_")

\* C16: what remove_private_keys returns holds exactly the paths of the input
\* none of whose keys starts with '_', each with the value it had; no key
\* starting with '_' is left at any depth, and a nested dict under a public
\* key whose keys were all private is still there, empty.
C16_ExactlyThePublicPaths ==
  (call.fn = "remove_private_keys" /\ Len(call.results) >= 1) =>
    LET input == Deref(call.before, call.meta_data)
        result == Deref(call.heap, call.results[1])
    IN /\ Paths(result.d, <<>>) = {p \in Paths(input.d, <<>>) : PublicPath(p.path)}
       /\ result = remove_private_keys(input)
       /\ \A p \in Paths(result.d, <<>>) : PublicPath(p.path)
       /\ \A p \in Paths(input.d, <<>>) :
            (p.value = Dict(<<>>) /\ PublicPath(p.path)) => p \in Paths(result.d, <<>>)

\* C16 witness: a dict nested under a public key held private keys only and
\* is an empty dict in the result, next to a kept public value.
C16_Witness ==
  /\ call.fn = "remove_private_keys" /\ Len(call.results) >= 1
  /\ Deref(call.before, call.meta_data)
       = Dict(<<Item(<<"n">>, Dict(<<Item(<<"_", "b">>, IntVal(1)), Item(<<"_", "c">>, Str(<<"s">>))>>)),
                Item(<<"a">>, Str(<<"v">>)), Item(<<"_", "b">>, IntVal(1))>>)
  /\ Deref(call.heap, call.results[1])
       = Dict(<<Item(<<"n">>, Dict(<<>>)), Item(<<"a">>, Str(<<"v">>))>>)

\* C17: calling remove_private_keys on what it returned returns an equal
\* tree.
C17_Idempotent ==
  (call.fn = "remove_private_keys" /\ Len(call.results) = 2) =>
    Deref(call.heap, call.results[2]) = Deref(call.heap, call.results[1])

\* C17 witness: the second call was made on a result the first call had
\* removed two private keys of one dict from.
C17_Witness ==
  /\ call.fn = "remove_private_keys" /\ Len(call.results) = 2
  /\ \E id \in 1..Len(call.before) :
       Cardinality({j \in 1..Len(call.before[id]) : IsPrivate(call.before[id][j].k)}) = 2
  /\ Deref(call.heap, call.results[2]) # Deref(call.before, call.meta_data)

\* C18: after the call every dict object of the input, the nested ones
\* included, holds the items it held before, private keys among them, and
\* the returned dict is an object that did not exist before the call, also
\* when it equals the input.
C18_InputUntouchedResultNew ==
  (call.fn = "remove_private_keys" /\ Len(call.results) >= 1) =>
    /\ \A id \in 1..Len(call.before) : call.heap[id] = call.before[id]
    /\ call.results[1] \notin 1..Len(call.before)
    /\ Len(call.results) = 2 => call.results[2] \notin 1..Len(call.before) \cup {call.results[1]}

\* C18 witness: nothing was private in a tree with a nested dict, and the
\* result equals the input.
C18_Witness ==
  /\ call.fn = "remove_private_keys" /\ Len(call.results) = 1
  /\ Len(call.before) = 2
  /\ Deref(call.heap, call.results[1]) = Deref(call.before, call.meta_data)
  /\ Deref(call.heap, call.meta_data) = Deref(call.before, call.meta_data)

CommonSubstrings(s1, s2) ==
  {SubSeq(s1, a, b) : a \in 1..(Len(s1) + 1), b \in 0..Len(s1)} \cap
  {SubSeq(s2, a, b) : a \in 1..(Len(s2) + 1), b \in 0..Len(s2)}

\* C19: what _longest_common_subsequence returns occurs in both sequences
\* as a contiguous substring and no common contiguous substring is longer;
\* it is empty exactly when the two have no character in common, and it is
\* the whole sequence when the two are equal.
C19_LongestCommonSubstring ==
  (call.fn = "_longest_common_subsequence" /\ call.done) =>
    /\ call.result \in CommonSubstrings(call.seq1, call.seq2)
    /\ \A c \in CommonSubstrings(call.seq1, call.seq2) : Len(c) <= Len(call.result)
    /\ call.result = <<>> <=> SeqRange(call.seq1) \cap SeqRange(call.seq2) = {}
    /\ call.seq1 = call.seq2 => call.result = call.seq1

\* What holds of it: the value is a common contiguous substring, and the
\* whole sequence when the two are equal.
C19_CommonSubstringOnly ==
  (call.fn = "_longest_common_subsequence" /\ call.done) =>
    /\ call.result \in CommonSubstrings(call.seq1, call.seq2)
    /\ call.seq1 = call.seq2 => call.result = call.seq1

\* No edit script of least cost for 'AAT' and 'ATT' keeps 'AT' together, and
\* none for 'AAT' and 'TGG' keeps the T.
C19_EveryScriptFallsShort ==
  /\ \A s \in editops(<<"A", "A", "T">>, <<"A", "T", "T">>) :
       _longest_common_subsequence(<<"A", "A", "T">>, <<"A", "T", "T">>, s) = <<"A">>
  /\ \A s \in editops(<<"A", "A", "T">>, <<"T", "G", "G">>) :
       _longest_common_subsequence(<<"A", "A", "T">>, <<"T", "G", "G">>, s) = <<>>

\* C20: the value _find_lcs returns is one of the values the pairs got, none
\* of them is longer, and none of the same length is contained in more
\* sequences; its 'sequences' are the 1-based indices, in order, of all the
\* sequences that contain the value, and 'length' is the value's length.
\* With fewer than two sequences, or no pair with a common block, it is the
\* empty result.
C20_LongestThenMostContained ==
  (call.fn = "_find_lcs" /\ call.done) =>
    LET found == {v \in SeqRange(call.lcs_values) : v # <<>>}
        holders(v) == {k \in 1..Len(call.sequences) : Contains(call.sequences[k], v)}
    IN IF Len(call.sequences) < 2 \/ found = {}
       THEN call.result = NoLcs
       ELSE /\ call.result.value \in found
            /\ \A v \in found : Len(v) <= Len(call.result.value)
            /\ \A v \in found :
                 Len(v) = Len(call.result.value) =>
                   Cardinality(holders(v)) <= Cardinality(holders(call.result.value))
            /\ SeqRange(call.result.sequences) = holders(call.result.value)
            /\ \A x, y \in 1..Len(call.result.sequences) :
                 x < y => call.result.sequences[x] < call.result.sequences[y]
            /\ call.result.length = Len(call.result.value)

\* C20 witness: the first pair got 'GA', held by two sequences, a later
\* pair 'AT', as long and held by all three, and 'AT' is returned with all
\* three indices.
C20_Witness ==
  /\ call.fn = "_find_lcs" /\ call.done
  /\ Len(call.sequences) = 3
  /\ call.lcs_values[1] = <<"G", "A">>
  /\ call.result = [value |-> <<"A", "T">>, sequences |-> <<1, 2, 3>>, length |-> 2]

\* Some pair of the sequences has a non-empty common contiguous substring.
SomePairShares(sequences) ==
  \E i, j \in 1..Len(sequences) :
    i < j /\ CommonSubstrings(sequences[i], sequences[j]) # {<<>>}

\* C21: _find_lcs returns the empty result exactly when it is given fewer
\* than two sequences or no pair of them shares a common substring.
C21_EmptyExactlyWhenNothingShared ==
  (call.fn = "_find_lcs" /\ call.done) =>
    (call.result = NoLcs <=> (Len(call.sequences) < 2 \/ ~SomePairShares(call.sequences)))

\* What holds of it: with fewer than two sequences, or no pair sharing a
\* character, the result is the empty one.
C21_EmptyWhenNothingShared ==
  (call.fn = "_find_lcs" /\ call.done) =>
    ((Len(call.sequences) < 2 \/ ~SomePairShares(call.sequences)) => call.result = NoLcs)

\* 'AAT' and 'TGG' share a T and get the empty result.
C21_SharedButEmpty ==
  /\ call.fn = "_find_lcs" /\ call.done
  /\ call.sequences = <<<<"A", "A", "T">>, <<"T", "G", "G">>>>
  /\ call.result = NoLcs

\* The offsets 0, 3, 6, ... at which a whole triplet of the sequence starts.
TripletOffsets(sequence) == {3 * q : q \in 0..((Len(sequence) \div 3) - 1)}

Triplet(sequence, o) == SubSeq(sequence, o + 1, o + 3)

\* The analyses the last call returned, each with the sequence it is of.
Analysed ==
  IF call.fn # "DNAProcessor" \/ call.calls = 0 \/ call.last.raised # "" THEN {}
  ELSE IF call.last.fn = "_analyze_sequence"
  THEN {[sequence |-> call.last.sequence, analysis |-> call.last.result]}
  ELSE {[sequence |-> call.last.sequences[x], analysis |-> call.last.result.sequences[x]] :
          x \in 1..Len(call.last.sequences)}

SumOfCounts(codons) ==
  LET RECURSIVE Sum(_)
      Sum(x) == IF x = 0 THEN 0 ELSE codons[x].v + Sum(x - 1)
  IN Sum(Len(codons))

\* C22: the codon table of a sequence holds, for every triplet starting at
\* an offset 0, 3, 6, ..., the number of those offsets it starts at, and
\* nothing else: the counts sum to floor(length / 3), the one or two
\* characters left over are not counted, and a sequence shorter than three
\* characters has an empty table.
C22_NonOverlappingTriplets ==
  \A a \in Analysed :
    /\ {it.k : it \in SeqRange(a.analysis.codons)}
         = {Triplet(a.sequence, o) : o \in TripletOffsets(a.sequence)}
    /\ \A x \in 1..Len(a.analysis.codons) :
         /\ a.analysis.codons[x].v
              = Cardinality({o \in TripletOffsets(a.sequence) :
                               Triplet(a.sequence, o) = a.analysis.codons[x].k})
         /\ \A y \in 1..Len(a.analysis.codons) :
              a.analysis.codons[x].k = a.analysis.codons[y].k => x = y
    /\ SumOfCounts(a.analysis.codons) = Len(a.sequence) \div 3
    /\ Len(a.sequence) < 3 => a.analysis.codons = <<>>

\* C22 witness: 'ATCATCA' was analysed: ATC twice, the last A left over.
C22_Witness ==
  \E a \in Analysed :
    /\ a.sequence = <<"A", "T", "C", "A", "T", "C", "A">>
    /\ a.analysis.codons = <<Item(<<"A", "T", "C">>, 2)>>

\* The number of characters of a sequence that are G or C.
GcCharacters(sequence) == Len(SelectSeq(sequence, LAMBDA c : c \in {"G", "C"}))

\* C23: the GC content of a non-empty sequence, in hundredths of a percent,
\* is the whole number nearest to 10000 * (number of G or C) / length and
\* lies in 0..10000: 100.00 when every character is G or C, 0.00 when none
\* is, 50.00 when exactly half are.
C23_GcContentIsRoundedPercentage ==
  \A a \in Analysed :
    LET gc == GcCharacters(a.sequence)
        n == Len(a.sequence)
        r == a.analysis.gc_content
    IN /\ 2 * (r * n - 10000 * gc) <= n
       /\ 2 * (10000 * gc - r * n) <= n
       /\ 0 <= r /\ r <= 10000
       /\ gc = n => r = 10000
       /\ gc = 0 => r = 0
       /\ 2 * gc = n => r = 5000

\* C23 witness: on an instance that has analysed a sequence before, half of
\* the characters of 'ATGC' are G or C and its GC content is 50.00.
C23_Witness ==
  /\ \E a \in Analysed : a.sequence = <<"A", "T", "G", "C">> /\ a.analysis.gc_content = 5000
  /\ call.calls = 2
  /\ call.analysed[1] = <<"A", "T", "C", "A", "T", "C", "A">>
  /\ call.last.before # <<>>

\* 'ATCATCA' has 2 of 7 characters G or C: 28.57.
C23_RoundsToNearest ==
  \A a \in Analysed :
    a.sequence = <<"A", "T", "C", "A", "T", "C", "A">> => a.analysis.gc_content = 2857

\* The triplets counted by the instance so far, in the order they were
\* counted.
RECURSIVE TripletStream(_)
TripletStream(sequences) ==
  IF sequences = <<>> THEN <<>>
  ELSE TripletStream(SubSeq(sequences, 1, Len(sequences) - 1))
       \o [q \in 1..(Len(sequences[Len(sequences)]) \div 3) |->
             Triplet(sequences[Len(sequences)], 3 * (q - 1))]

Occurrences(stream, codon) == Cardinality({x \in 1..Len(stream) : stream[x] = codon})

FirstSeen(stream, codon) == CHOOSE x \in 1..Len(stream) :
  stream[x] = codon /\ \A y \in 1..(x - 1) : stream[y] # codon

Accumulated(cf, codon) ==
  IF \E x \in 1..Len(cf) : cf[x].k = codon
  THEN cf[CHOOSE x \in 1..Len(cf) : cf[x].k = codon].v
  ELSE 0

\* C24: on one instance, after any calls, every codon's accumulated count is
\* the number of times it was counted as a triplet over all sequences
\* analysed so far and is not below what it was before the last call; the
\* most_common_codon transform_dna reports has the greatest accumulated
\* count, and of the codons with that count it is the one counted first; it
\* is null (here the empty string) exactly when no codon was ever counted.
C24_AccumulatedCountsAndMostCommon ==
  (call.fn = "DNAProcessor" /\ call.calls > 0) =>
    LET stream == TripletStream(call.analysed)
        cf == call.codon_frequencies
    IN /\ {cf[x].k : x \in 1..Len(cf)} = SeqRange(stream)
       /\ \A c \in SeqRange(stream) : Accumulated(cf, c) = Occurrences(stream, c)
       /\ \A x \in 1..Len(call.last.before) :
            call.last.before[x].v <= Accumulated(cf, call.last.before[x].k)
       /\ (call.last.fn = "transform_dna" /\ call.last.raised = "") =>
            LET m == call.last.result.most_common_codon
            IN /\ m = <<>> <=> stream = <<>>
               /\ m # <<>> =>
                    /\ m \in SeqRange(stream)
                    /\ \A c \in SeqRange(stream) :
                         \/ Occurrences(stream, c) < Occurrences(stream, m)
                         \/ /\ Occurrences(stream, c) = Occurrences(stream, m)
                            /\ FirstSeen(stream, m) <= FirstSeen(stream, c)

\* C24 witness: the second call on the instance is transform_dna; ATC and
\* GCG have both been counted twice by then, ATC first, and ATC is
\* reported.
C24_Witness ==
  /\ call.fn = "DNAProcessor" /\ call.calls = 2
  /\ call.last.fn = "transform_dna" /\ call.last.raised = ""
  /\ call.last.before # <<>>
  /\ Accumulated(call.codon_frequencies, <<"G", "C", "G">>) = 2
  /\ Accumulated(call.codon_frequencies, <<"A", "T", "C">>) = 2
  /\ call.codon_frequencies[1].k = <<"A", "T", "C">>
  /\ call.last.result.most_common_codon = <<"A", "T", "C">>

\* Run i returned 0 and its record is in the file at its results path.
WroteRecord(i) ==
  /\ run[i].returned /\ run[i].result.code = 0
  /\ run[i].saved
  /\ fs[run[i].verified_paths.output_path].present

RecordOf(i) == fs[run[i].verified_paths.output_path].content

\* The record of run i carries the two readings of the clock: start_at read
\* after path resolution and before extraction, end_at read after the DNA
\* transformation and before persistence.  A timestamp is the number of
\* statements of the try block completed when it is read.
TimestampsBracketProcessing(i) ==
  LET m == RecordOf(i).metadata
      log == run[i].log
  IN /\ {"start_at", "end_at"} \subseteq DOMAIN m
     /\ m.start_at = run[i].start_time /\ m.end_at = run[i].end_time
     /\ m.start_at \in 1..(Len(log) - 1) /\ m.end_at \in 1..(Len(log) - 1)
     /\ log[m.start_at] = "validate_input" /\ log[m.start_at + 1] = "extract"
     /\ log[m.end_at] = "transform" /\ log[m.end_at + 1] = "load"
     /\ m.start_at <= m.end_at

\* C25, as stated: every run that returned 0 has a written record whose
\* metadata section holds start_at, read after path resolution and before
\* extraction, and end_at, read after the DNA transformation and before
\* persistence, with start_at not later than end_at.
C25_TimestampsInWrittenRecord ==
  \A i \in Files :
    (run[i].returned /\ run[i].result.code = 0) =>
      /\ fs[run[i].verified_paths.output_path].present
      /\ TimestampsBracketProcessing(i)

\* C25 for the runs whose record was written: the two timestamps are in the
\* record and bracket extraction, validation and transformation.
C25_TimestampsBracketProcessing ==
  \A i \in Files : WroteRecord(i) => TimestampsBracketProcessing(i)

\* A run has written its record, with two statements of the try block
\* between the two readings.
C25_RecordWritten ==
  \E i \in Files :
    /\ WroteRecord(i)
    /\ RecordOf(i).metadata.end_at > RecordOf(i).metadata.start_at + 2

\* The last segment of path is id: the path ends with "/" and id, up to
\* trailing separators.
LastSegmentIs(path, id) ==
  /\ id # <<>> /\ "/" \notin SeqRange(id)
  /\ \E k \in 2..Len(path) :
       /\ k + Len(id) - 1 <= Len(path)
       /\ SubSeq(path, k, k + Len(id) - 1) = id
       /\ path[k - 1] = "/"
       /\ \A x \in (k + Len(id))..Len(path) : path[x] = "/"

\* The context_path written in the descriptor file of run i.
DescriptorContextPath(i) ==
  DictValue(DescriptorFile(i, inputs[i].desc).value.d, Key_context_path).s

\* The identifier in the returned message, the last segment of the
\* descriptor's context_path and the identifier in the single results entry
\* of the record of run i are one value.
OneParticipantId(i) ==
  LET id == run[i].result.message.text.arg
      record == RecordOf(i)
  IN /\ run[i].result.message = SuccessMessage(id)
     /\ LastSegmentIs(DescriptorContextPath(i), id)
     /\ record.metadata.context_path = DescriptorContextPath(i)
     /\ Len(record.results) = 1
     /\ record.results[1].participant._id = id

\* C26, as stated: every run that returned 0 has a written record with
\* exactly one results entry, and the identifier in the returned message,
\* the last segment of the descriptor's context_path and
\* results[0].participant._id of that record are the same value.
C26_OneParticipantIdInWrittenRecord ==
  \A i \in Files :
    (run[i].returned /\ run[i].result.code = 0) =>
      /\ fs[run[i].verified_paths.output_path].present
      /\ OneParticipantId(i)

\* C26 for the runs whose record was written: one identifier in message,
\* context_path and record, and one results entry.
C26_OneParticipantId ==
  \A i \in Files : WroteRecord(i) => OneParticipantId(i)

\* A run has written its record, which names the participant of the message.
C26_RecordWritten ==
  \E i \in Files :
    /\ WroteRecord(i)
    /\ RecordOf(i).results[1].participant._id = SampleUUID
    /\ run[i].result.message.text.arg = SampleUUID

\* C27: every result of _find_lcs has length = len(value); with a non-empty
\* value its sequences list is strictly ascending, every index in it lies in
\* 1..n for the n sequences given, and it holds both indices of a pair whose
\* LCS is the value; with an empty value the list is empty and length is 0.
C27_ResultIsWellFormed ==
  (call.fn = "_find_lcs" /\ call.done) =>
    LET r == call.result
        n == Len(call.sequences)
        pairs == combinations2(n)
    IN /\ r.length = Len(r.value)
       /\ r.value # <<>> =>
            /\ \A x \in 1..(Len(r.sequences) - 1) : r.sequences[x] < r.sequences[x + 1]
            /\ \A x \in 1..Len(r.sequences) : r.sequences[x] \in 1..n
            /\ \E x \in 1..Len(pairs) :
                 /\ call.lcs_values[x] = r.value
                 /\ {pairs[x][1], pairs[x][2]} \subseteq SeqRange(r.sequences)
       /\ r.value = <<>> => (r.sequences = <<>> /\ r.length = 0)

\* C27 witness: of three sequences the first and the third share the value
\* returned and the second does not contain it.
C27_Witness ==
  /\ call.fn = "_find_lcs" /\ call.done
  /\ Len(call.sequences) = 3
  /\ call.result.value # <<>>
  /\ call.result.sequences = <<1, 3>>

\* The DNA file of run i has a line with a character that is not white space.
HasNonBlankLine(i) ==
  \E x \in 1..Len(DnaFile(inputs[i].dna)) :
    \E y \in 1..Len(DnaFile(inputs[i].dna)[x]) : ~IsSpace(DnaFile(inputs[i].dna)[x][y])

\* C28: no sequence a pipeline run hands to the analyzer is empty, so no run
\* ends in the division by zero of the GC content; a run whose DNA file has
\* no non-blank line extracts the empty list, and its transformation does
\* not fail and gives an empty per-sequence list and the empty LCS result.
C28_NoEmptySequenceInPipeline ==
  \A i \in Files :
    /\ "extract" \in SeqRange(run[i].log) =>
         \A x \in 1..Len(run[i].dna_data) : run[i].dna_data[x] # <<>>
    /\ run[i].exc.type # "ZeroDivisionError"
    /\ ("extract" \in SeqRange(run[i].log) /\ run[i].failed_stage # "extract"
          /\ ~HasNonBlankLine(i)) =>
         /\ run[i].dna_data = <<>>
         /\ run[i].failed_stage # "transform"
         /\ "transform" \in SeqRange(run[i].log) =>
              /\ run[i].transformed_dna.sequences = <<>>
              /\ run[i].transformed_dna.lcs = NoLcs

\* C28 witness: a run over a DNA file of blank lines only has returned 0 and
\* written a record with no sequence analysis and the empty LCS result.
C28_Witness ==
  \E i \in Files :
    /\ ~HasNonBlankLine(i) /\ Len(DnaFile(inputs[i].dna)) > 1
    /\ WroteRecord(i)
    /\ RecordOf(i).results[1].txt.sequences = <<>>
    /\ RecordOf(i).results[1].txt.lcs = NoLcs

\* The metadata file of run i breaks a validation rule only under a key
\* starting with "_": the tree is rejected, the tree without its private
\* keys is accepted.
ViolationUnderPrivateKey(i) ==
  /\ MetadataFile(inputs[i].meta).json_ok
  /\ MetadataFile(inputs[i].meta).value.t = "dict"
  /\ ~validate_metadata(MetadataFile(inputs[i].meta).value, today)
  /\ validate_metadata(remove_private_keys(MetadataFile(inputs[i].meta).value), today)

\* C29, as stated: metadata validation runs on the full tree before the
\* private keys are removed, and a run whose metadata breaks a rule under a
\* key starting with "_" fails.
C29_PrivateViolationFailsRun ==
  \A i \in Files :
    (run[i].returned /\ "extract" \in SeqRange(run[i].log)
       /\ run[i].failed_stage # "extract" /\ ViolationUnderPrivateKey(i)) =>
      /\ run[i].result.code # 0
      /\ run[i].failed_stage = "validate_metadata"

\* C29 without the failure: validation is given the tree as extracted,
\* private keys included, and rejects it for a violation under a private
\* key, before the private keys are removed; the rejected key is not in the
\* record.
C29_ValidatesUnsanitizedTree ==
  \A i \in Files :
    ("validate_metadata" \in SeqRange(run[i].log) /\ ViolationUnderPrivateKey(i)) =>
      /\ run[i].valid_metadata = "False"
      /\ "transform" \in SeqRange(run[i].log) =>
           /\ Len(run[i].log) > 3 /\ run[i].log[3] = "validate_metadata"
           /\ run[i].log[4] = "transform"
           /\ run[i].failed_stage # "transform" =>
                run[i].transformed_metadata = remove_private_keys(run[i].metadata)
      /\ WroteRecord(i) =>
           \A x \in 1..Len(RecordOf(i).results[1].json.d) :
             ~IsPrivate(RecordOf(i).results[1].json.d[x].k)

\* A run whose metadata breaks a rule under a private key only has returned
\* 0 and written its record.
C29_PrivateViolationWritten ==
  \E i \in Files : ViolationUnderPrivateKey(i) /\ WroteRecord(i)

NoRepeat(s) == \A x, y \in 1..Len(s) : s[x] = s[y] => x = y

\* C30: in both batch modes the files passed to orchestrate are descriptor
\* files of the listing taken before any run started, each passed at most
\* once and recorded at most once; a .json file written into the directory
\* during the batch is not passed to orchestrate, and when the batch is done
\* the files processed are exactly the files of that listing.
C30_WorkListFixedByOneListing ==
  Batch =>
    /\ \A i \in 1..Len(inputs) : run[i].calls <= 1
    /\ NoRepeat(successful_files)
    /\ NoRepeat([k \in 1..Len(failed_files) |-> failed_files[k].file])
    /\ Recorded \subseteq {i \in 1..Len(inputs) : run[i].calls = 1}
    /\ \A i \in 1..Len(inputs) :
         run[i].calls > 0 =>
           /\ IsJsonName(DescriptorPath(i))
           /\ \A p \in NewJsonFiles : PathName(p) # DescriptorPath(i)
    /\ (bpc = "done" /\ Len(inputs) > 0) =>
         /\ Recorded = 1..Len(inputs)
         /\ \A i \in 1..Len(inputs) : run[i].calls = 1
         /\ summary.total_files = Len(inputs)

\* C30 witness: a sequential batch of two files is done; the first run wrote a .json
\* record into the directory before the second file was passed to
\* orchestrate, the directory holds two new .json files, and two files were
\* processed.
C30_Witness ==
  /\ mode = "sequential" /\ bpc = "done" /\ Len(inputs) = 2
  /\ Cardinality(NewJsonFiles) = 2
  /\ summary.total_files = 2
  /\ run[2].start_time > 0

====
